---- MODULE Spec2Model ----
(***************************************************************************)
(* Host-controller console (harnesses/host_controller/console.py).         *)
(*                                                                         *)
(* The console keeps two registries of polling threads (build_thread,      *)
(* schedule_thread), one device-update thread handle (update_thread), the  *)
(* selected serials and the artifact maps filled by fetch.  Each polling   *)
(* thread runs  while getattr(thread, 'keep_running', True): try: work     *)
(* except (four kinds): log; sleep(interval).                              *)
(***************************************************************************)
EXTENDS Integers, Sequences, FiniteSets, TLC

\* ------------------------------------------------------------- bounds
MaxThreads == 2
MaxHosts == 2
MaxFail == 1

\* ---------------------------------------------------------- input sets
\* "--id": absent (<<>>, Python None) or the string of an integer.
IdArgs == {<<>>, <<1>>, <<2>>}
\* "--interval" (type=int); 30 is the default of build and device.
Intervals == {-1, 0, 30}
\* "--host" (type=int): absent or an index.
HostArgs == {<<>>, <<0>>, <<MaxHosts>>}
\* "--set_serial": absent/empty (<<>>) or a comma-separated list, one token
\* per serial and per comma.
SerialArgs == {<<>>, <<"S1">>, <<"S1", ",", "S2">>}

\* Exceptions the three loops catch (console.py:718-719, 889-890, 1058-1059).
CaughtErrors == {"socket.error", "RemoteOperationException",
                 "HttpLib2Error", "HttpError"}
\* What one unit of work can do: return, or raise.  AttributeError is what
\* UpdateConfig raises at console.py:858 (file.endswith) for any file found;
\* KeyError is what a build record without "successful" raises (689, 843).
WorkOutcomes == {"ok", "socket.error", "HttpError", "AttributeError"}

VARIABLES
  build_thread,     \* dict: session id -> thread (index into threads)
  schedule_thread,  \* dict: session id -> thread (index into threads)
  update_thread,    \* 0 (None) or a thread (index into threads)
  threads,          \* every threading.Thread object created so far
  _serials,         \* list of selected device serials
  _hosts,           \* len(self._hosts), fixed at construction
  device_image_info,
  test_suite_info,
  tools_info,
  fetch_info,
  flash_calls,      \* calls the last flash command made on its flashers
  last,             \* the last command line dispatched and what it printed
  stop,             \* cmdloop's stop: TRUE once onecmd has returned True
  batch,            \* the onecmd(list) call in progress
  jobs,             \* the multiprocessing.Process objects of that call
  script,           \* the ProcessScript call in progress
  dispatched,       \* the lines ProcessScript has handed to onecmd, in order
  shell_calls,      \* change_spl.sh runs made by the last gsispl command
  upload,           \* the VtiEndpointClient upload call in progress, or the last
  lease_job         \* the last VtiEndpointClient.LeaseJob call and its result

vars == <<build_thread, schedule_thread, update_thread, threads, _serials,
          _hosts, device_image_info, test_suite_info, tools_info, fetch_info,
          flash_calls, last, stop, batch, jobs, script, dispatched,
          shell_calls, upload, lease_job>>

sessionVars == <<build_thread, schedule_thread, update_thread, threads>>
artifactVars == <<device_image_info, test_suite_info, tools_info, fetch_info,
                  flash_calls>>
dispatchVars == <<stop, batch, jobs, script, dispatched, shell_calls, upload, lease_job>>

\* ----------------------------------------------------------- helpers
Max(S) == CHOOSE x \in S : \A y \in S : y <= x

\* dict[key] = value
DictSet(d, k, v) == [x \in DOMAIN d \cup {k} |-> IF x = k THEN v ELSE d[x]]

\* str.split(",") on a token list: the pieces between the commas.
RECURSIVE SplitComma(_)
SplitComma(toks) ==
  IF \A i \in 1..Len(toks) : toks[i] # ","
  THEN <<toks>>
  ELSE LET i == CHOOSE j \in 1..Len(toks) :
                  toks[j] = "," /\ \A k \in 1..(j-1) : toks[k] # ","
       IN <<SubSeq(toks, 1, i-1)>> \o SplitComma(SubSeq(toks, i+1, Len(toks)))

\* A serial is the concatenation of the tokens of its piece ("" when empty).
Piece(p) == IF p = <<>> THEN "" ELSE p[1]
SplitSerialsAppends(toks) ==
  LET ps == SplitComma(toks) IN _serials \o [i \in 1..Len(ps) |-> Piece(ps[i])]
SplitSerials(toks) ==
  LET ps == SplitComma(toks) IN [i \in 1..Len(ps) |-> Piece(ps[i])]

\* hasattr(thread, 'keep_running')
HasKeepRunning(t) == threads[t].keep_running # "absent"

\* getattr(thread, 'keep_running', True)
KeepRunningIgnored(t) == TRUE
\* (a flag kept per kind of session: the loop reads that of the newest thread)
KeepRunningOfNewest(t) ==
  LET same == {u \in 1..Len(threads) : threads[u].kind = threads[t].kind}
  IN threads[Max(same)].keep_running = "absent"
KeepRunning(t) == threads[t].keep_running = "absent"

\* threading.Thread(target=<loop>, args=(..., interval)); .start()
NewThread(kind, interval) ==
  [kind |-> kind, pc |-> "top", keep_running |-> "absent",
   interval |-> interval]

\* args.interval <= 0
IntervalNegativeOnly(interval) == interval < 0
IntervalRejected(interval) == interval <= 0

\* args.id is None: 1 if the dict is empty else max(dict) + 1; else int(id)
AutoIdByCount(reg) == Cardinality(DOMAIN reg) + 1
AutoId(reg) == IF DOMAIN reg = {} THEN 1 ELSE Max(DOMAIN reg) + 1

ResolveId(reg, idarg) == IF idarg = <<>> THEN AutoId(reg) ELSE idarg[1]

\* args.id in self.build_thread and not hasattr(self.build_thread[id], ...)
NeverAlreadyRunning(reg, id) == FALSE
RegisteredIsRunning(reg, id) == id \in DOMAIN reg
AlreadyRunningAnyKind(reg, id) ==
  \/ id \in DOMAIN build_thread /\ ~HasKeepRunning(build_thread[id])
  \/ id \in DOMAIN schedule_thread /\ ~HasKeepRunning(schedule_thread[id])
\* (a test of whether the registered thread is still alive)
AlreadyRunningIfAlive(reg, id) ==
  /\ id \in DOMAIN reg
  /\ ~HasKeepRunning(reg[id])
  /\ threads[reg[id]].pc \notin {"done", "dead"}
AlreadyRunning(reg, id) == id \in DOMAIN reg /\ ~HasKeepRunning(reg[id])

\* self.update_thread is not None and not hasattr(self.update_thread, ...)
DeviceNeverAlreadyRunning == FALSE
DeviceAlreadyRunning == update_thread # 0 /\ ~HasKeepRunning(update_thread)

\* ---------------------------------------------------- artifact names
\* Artifact names are strings; they are modelled as character sequences so
\* that image.rsplit(".img", 1)[0] is computed, not assumed.
DOT_IMG == <<".", "i", "m", "g">>
boot_img == <<"b", "o", "o", "t">> \o DOT_IMG
cache_img == <<"c", "a", "c", "h", "e">> \o DOT_IMG
system_img == <<"s", "y", "s", "t", "e", "m">> \o DOT_IMG
userdata_img == <<"u", "s", "e", "r", "d", "a", "t", "a">> \o DOT_IMG
vbmeta_img == <<"v", "b", "m", "e", "t", "a">> \o DOT_IMG
vendor_img == <<"v", "e", "n", "d", "o", "r">> \o DOT_IMG
\* An image the default list does not name.
radio_img == <<"r", "a", "d", "i", "o">> \o DOT_IMG
\* build_provider.FULL_ZIPFILE: a name without the ".img" suffix.
FULL_ZIPFILE == <<"f", "u", "l", "l", "-", "z", "i", "p", "f", "i", "l", "e">>

_DEFAULT_FLASH_IMAGES ==
  <<FULL_ZIPFILE, boot_img, cache_img, system_img, userdata_img, vbmeta_img,
    vendor_img>>

\* dict.update(other)
DictReplace(d, other) == other
DictUpdate(d, other) ==
  [k \in DOMAIN d \cup DOMAIN other |-> IF k \in DOMAIN other THEN other[k] ELSE d[k]]

\* s.rsplit(sep, 1)[0]: what precedes the last occurrence of sep in s, or s.
RSplitKeepsName(s, sep) == s
RSplitHead(s, sep) ==
  LET at == {i \in 1..(Len(s) - Len(sep) + 1) :
               SubSeq(s, i, i + Len(sep) - 1) = sep}
  IN IF at = {} THEN s ELSE SubSeq(s, 1, Max(at) - 1)

\* dict((image.rsplit(".img", 1)[0], self.device_image_info[image])
\*      for image in _DEFAULT_FLASH_IMAGES if image in self.device_image_info)
DefaultPartitions(images) ==
  LET names == {n \in {_DEFAULT_FLASH_IMAGES[i] : i \in 1..Len(_DEFAULT_FLASH_IMAGES)} :
                  n \in DOMAIN images}
      key(n) == RSplitHead(n, DOT_IMG)
  IN [p \in {key(n) : n \in names} |->
        images[CHOOSE n \in names : key(n) = p]]

\* dict((partition, self.device_image_info[image])
\*      for partition, image in args.current); the lookup raises KeyError.
CurrentPartitions(images, current) ==
  [p \in {current[i][1] : i \in 1..Len(current)} |->
     images[(current[CHOOSE i \in 1..Len(current) :
                       /\ current[i][1] = p
                       /\ \A j \in (i+1)..Len(current) : current[j][1] # p])[2]]]

\* What onecmd makes of one command line: ret is what it returns to cmdloop.
\* The exception types the handlers raise, by the name onecmd prints.
Exceptions ==
  {"ConsoleArgumentError", "KeyError", "AttributeError", "IndexError",
   "TypeError", "IOError", "FlasherError", "socket.error", "HttpError"}

OutcomePropagates(cmd, res) ==
  [cmd |-> cmd, res |-> res,
   ret |-> IF res \in Exceptions THEN "raised" ELSE "None",
   work |-> <<>>, listed |-> {}, on_host |-> <<>>]
\* work lists the units of work the handler ran inline, listed the ids it
\* printed and on_host the index at which it read self._hosts.
Outcome(cmd, res) ==
  [cmd |-> cmd, res |-> res, ret |-> "None", work |-> <<>>, listed |-> {},
   on_host |-> <<>>]

Dispatched(cmd, res) == last' = Outcome(cmd, res)

\* No upload call has been made: pc is where the call stands ("idle": not in
\* a call), sets the payloads it has to post, sent the requests it has posted
\* with their responses, ret what it returned.
NoUpload ==
  [pc |-> "idle", kind |-> "none", pbs |-> [none |-> TRUE, items |-> <<>>],
   sets |-> <<>>, i |-> 1, sent |-> <<>>, succ |-> TRUE, ret |-> "none"]

\* No LeaseJob call has been made.  A call is recorded with its hostname, the
\* response to its request (<<>>: no request was posted), what it printed
\* and the pair it returned; None and the empty dict {} are both <<>>.
NoLeaseJob ==
  [hostname |-> "", response |-> <<>>, printed |-> "none",
   ret |-> [test |-> <<>>, job |-> <<>>], called |-> FALSE]

\* ------------------------------------------------------- construction
\* Console.__init__: empty registries, no device thread, empty maps.
Init ==
  /\ build_thread = <<>>
  /\ schedule_thread = <<>>
  /\ update_thread = 0
  /\ threads = <<>>
  /\ _serials = <<>>
  /\ _hosts \in 1..MaxHosts
  /\ device_image_info = <<>>
  /\ test_suite_info = <<>>
  /\ tools_info = <<>>
  /\ fetch_info = <<>>
  /\ flash_calls = <<>>
  /\ last = Outcome([verb |-> "none"], "none")
  /\ stop = FALSE
  /\ batch = [pc |-> "idle", lines |-> <<>>, i |-> 1]
  /\ jobs = <<>>
  /\ script = [pc |-> "idle", path |-> <<>>, loaded |-> FALSE,
               serial |-> <<>>, commands |-> <<>>, k |-> 0, ret |-> "none"]
  /\ dispatched = <<>>
  /\ shell_calls = <<>>
  /\ upload = NoUpload
  /\ lease_job = NoLeaseJob

\* ------------------------------------------------------ polling loops
\* One step of  while getattr(thread, 'keep_running', True):
\*                  try: work()  except (CaughtErrors): log
\*                  time.sleep(update_interval)
\* pc: "top" (at the while test), "work", "sleep", "done" (the loop exited),
\* "dead" (an exception left the thread's run function).
LoopTop(t) ==
  /\ threads[t].pc = "top"
  /\ threads' = [threads EXCEPT ![t].pc = IF KeepRunning(t) THEN "work" ELSE "done"]

LoopWork(t, outcome) ==
  /\ threads[t].pc = "work"
  /\ threads' = [threads EXCEPT
       ![t].pc = IF outcome = "ok" \/ outcome \in CaughtErrors
                 THEN "sleep" ELSE "dead"]

\* time.sleep raises on a negative argument.
LoopSleepSkipsTest(t) ==
  /\ threads[t].pc = "sleep"
  /\ threads' = [threads EXCEPT
       ![t].pc = IF threads[t].interval < 0 THEN "dead" ELSE "work"]
LoopSleep(t) ==
  /\ threads[t].pc = "sleep"
  /\ threads' = [threads EXCEPT
       ![t].pc = IF threads[t].interval < 0 THEN "dead" ELSE "top"]

\* (a loop that, as it ends, clears the device handle that names it)
PollingLoopUnregisters(t) ==
  /\ \/ LoopTop(t)
     \/ \E outcome \in WorkOutcomes : LoopWork(t, outcome)
     \/ LoopSleep(t)
  /\ update_thread' = IF update_thread = t /\ threads'[t].pc \in {"done", "dead"}
                      THEN 0 ELSE update_thread
  /\ UNCHANGED <<build_thread, schedule_thread, _serials,
                 _hosts, artifactVars, last, dispatchVars>>
PollingLoop(t) ==
  /\ \/ LoopTop(t)
     \/ \E outcome \in WorkOutcomes : LoopWork(t, outcome)
     \/ LoopSleep(t)
  /\ UNCHANGED <<build_thread, schedule_thread, update_thread, _serials,
                 _hosts, artifactVars, last, dispatchVars>>

UpdateBuildLoop(t) ==
  t \in 1..Len(threads) /\ threads[t].kind = "build" /\ PollingLoop(t)

UpdateConfigLoop(t) ==
  t \in 1..Len(threads) /\ threads[t].kind = "config" /\ PollingLoop(t)

UpdateDeviceRepeat(t) ==
  t \in 1..Len(threads) /\ threads[t].kind = "device" /\ PollingLoop(t)

\* ------------------------------------------------- build / config
\* The "start"/"stop"/"list"/"single" branches of do_build and do_config on
\* registry reg; the result is <<reg', threads', printed>>.
StartSession(reg, kind, idarg, interval) ==
  IF IntervalRejected(interval)
  THEN <<reg, threads, "ConsoleArgumentError">>
  ELSE LET id == ResolveId(reg, idarg) IN
       IF AlreadyRunning(reg, id)
       THEN <<reg, threads, "already running">>
       ELSE <<DictSet(reg, id, Len(threads) + 1),
              Append(threads, NewThread(kind, interval)),
              "started">>

\* self.build_thread[int(args.id)].keep_running = False
StopIgnoresMissing(reg, idarg) ==
  IF idarg = <<>>
  THEN <<reg, threads, "--id must be set for stop">>
  ELSE IF idarg[1] \notin DOMAIN reg
  THEN <<reg, threads, "stopped">>
  ELSE <<reg, [threads EXCEPT ![reg[idarg[1]]].keep_running = "False"],
         "stopped">>

StopSessionPrunes(reg, idarg) ==
  IF idarg = <<>>
  THEN <<reg, threads, "--id must be set for stop">>
  ELSE IF idarg[1] \notin DOMAIN reg
  THEN <<reg, threads, "KeyError">>
  ELSE <<[x \in DOMAIN reg \ {idarg[1]} |-> reg[x]],
         [threads EXCEPT ![reg[idarg[1]]].keep_running = "False"],
         "stopped">>
StopSession(reg, idarg) ==
  IF idarg = <<>>
  THEN <<reg, threads, "--id must be set for stop">>
  ELSE IF idarg[1] \notin DOMAIN reg
  THEN <<reg, threads, "KeyError">>
  ELSE <<reg, [threads EXCEPT ![reg[idarg[1]]].keep_running = "False"],
         "stopped">>

\* do_build: "single" calls self.UpdateDevice with four arguments (727-731);
\* UpdateDevice takes two, so the call raises TypeError.  An --update outside
\* its choices makes ParseLine raise through ConsoleArgumentParser.error.
BuildResult(update, idarg, interval) ==
  CASE update = "single" -> <<build_thread, threads, "TypeError">>
    [] update = "list" -> <<build_thread, threads, "listed">>
    [] update = "start" -> StartSession(build_thread, "build", idarg, interval)
    [] update = "stop" -> StopSession(build_thread, idarg)
    [] OTHER -> <<build_thread, threads, "ConsoleArgumentError">>

\* The units of work do_build runs inline: none, as "single" raises at the
\* call and never reaches UpdateBuild.
BuildWork(update) == <<>>

\* "list": for id in self.build_thread: print(id)
BuildListed(update) == IF update = "list" THEN DOMAIN build_thread ELSE {}

do_build(update, idarg, interval) ==
  LET r == BuildResult(update, idarg, interval) IN
  /\ Len(r[2]) <= MaxThreads
  /\ build_thread' = r[1]
  /\ threads' = r[2]
  /\ last' = [Outcome([verb |-> "build", update |-> update, id |-> idarg,
                       interval |-> interval], r[3])
                EXCEPT !.work = BuildWork(update),
                       !.listed = BuildListed(update)]
  /\ UNCHANGED <<schedule_thread, update_thread, _serials, _hosts, artifactVars>>

\* do_config: "single" runs UpdateConfig inline; what it raises reaches onecmd.
ConfigResult(update, idarg, interval, outcome) ==
  CASE update = "single" -> <<schedule_thread, threads, outcome>>
    [] update = "list" -> <<schedule_thread, threads, "listed">>
    [] update = "start" -> StartSession(schedule_thread, "config", idarg, interval)
    [] update = "stop" -> StopSession(schedule_thread, idarg)

\* "single" calls self.UpdateConfig once.
ConfigWork(update) == IF update = "single" THEN <<"UpdateConfig">> ELSE <<>>

\* "list": for id in self.schedule_thread: print(id)
ConfigListed(update) == IF update = "list" THEN DOMAIN schedule_thread ELSE {}

do_config(update, idarg, interval, outcome) ==
  LET r == ConfigResult(update, idarg, interval, outcome) IN
  /\ Len(r[2]) <= MaxThreads
  /\ schedule_thread' = r[1]
  /\ threads' = r[2]
  /\ last' = [Outcome([verb |-> "config", update |-> update, id |-> idarg,
                       interval |-> interval], r[3])
                EXCEPT !.work = ConfigWork(update),
                       !.listed = ConfigListed(update)]
  /\ UNCHANGED <<build_thread, update_thread, _serials, _hosts, artifactVars>>

\* ------------------------------------------------------------ device
\* args.host is None: error with more than one host, else host 0; then
\* self._hosts[args.host].
HostResultFirstHost(hostarg) ==
  IF hostarg = <<>> THEN "ok"
  ELSE IF hostarg[1] >= _hosts THEN "IndexError" ELSE "ok"
HostResult(hostarg) ==
  IF hostarg = <<>>
  THEN IF _hosts > 1 THEN "ConsoleArgumentError" ELSE "ok"
  ELSE IF hostarg[1] >= _hosts THEN "IndexError" ELSE "ok"

\* args.host once self._hosts[args.host] has been read: 0 when no --host was
\* given and there is one host.
HostUsed(hostarg) ==
  IF HostResult(hostarg) # "ok" THEN <<>>
  ELSE IF hostarg = <<>> THEN <<0>> ELSE hostarg

\* do_lease: the same lookup, then self._hosts[args.host].LeaseCommandTasks()
\* (outcome: what that call does) and the tasks are printed.
LeaseResult(hostarg, outcome) ==
  IF HostResult(hostarg) # "ok" THEN HostResult(hostarg) ELSE outcome

LeaseWork(hostarg) ==
  IF HostResult(hostarg) = "ok" THEN <<"LeaseCommandTasks">> ELSE <<>>

do_lease(hostarg, outcome) ==
  /\ last' = [Outcome([verb |-> "lease", host |-> hostarg,
                       outcome |-> outcome], LeaseResult(hostarg, outcome))
                EXCEPT !.work = LeaseWork(hostarg),
                       !.on_host = HostUsed(hostarg)]
  /\ UNCHANGED <<sessionVars, _serials, _hosts, artifactVars>>

\* ParseLine on "--update": the value given (<<>>: the option is absent), or
\* the default of _InitDeviceParser.
ParseUpdateNoDefault(arg) == IF arg = <<>> THEN "" ELSE arg[1]
ParseUpdate(arg) == IF arg = <<>> THEN "start" ELSE arg[1]

\* The "if args.update:" block of do_device, skipped when args.update is
\* empty; the result is <<update_thread', threads', printed>>.
DeviceResult(update, interval, hostarg, outcome) ==
  IF update = ""
  THEN <<update_thread, threads, "ok">>
  ELSE IF HostResult(hostarg) # "ok"
  THEN <<update_thread, threads, HostResult(hostarg)>>
  ELSE CASE update = "single" -> <<update_thread, threads, outcome>>
         [] update = "start" ->
              IF IntervalRejected(interval)
              THEN <<update_thread, threads, "ConsoleArgumentError">>
              ELSE IF DeviceAlreadyRunning
              THEN <<update_thread, threads, "already running">>
              ELSE <<Len(threads) + 1,
                     Append(threads, NewThread("device", interval)),
                     "started">>
         [] update = "stop" ->
              IF update_thread = 0
              THEN <<update_thread, threads, "AttributeError">>
              ELSE <<update_thread,
                     [threads EXCEPT ![update_thread].keep_running = "False"],
                     "stopped">>

\* "single" calls self.UpdateDevice once, after the host lookup.
DeviceWork(update, hostarg) ==
  IF update = "single" /\ HostResult(hostarg) = "ok"
  THEN <<"UpdateDevice">> ELSE <<>>

do_device(set_serial, update, interval, hostarg, outcome) ==
  LET r == DeviceResult(update, interval, hostarg, outcome) IN
  /\ Len(r[2]) <= MaxThreads
  /\ _serials' = IF set_serial # <<>> THEN SplitSerials(set_serial) ELSE _serials
  /\ update_thread' = r[1]
  /\ threads' = r[2]
  /\ last' = [Outcome([verb |-> "device", update |-> update,
                       set_serial |-> set_serial, interval |-> interval,
                       host |-> hostarg], r[3])
                EXCEPT !.work = DeviceWork(update, hostarg),
                       !.on_host = IF update = "" THEN <<>>
                                   ELSE HostUsed(hostarg)]
  /\ UNCHANGED <<build_thread, schedule_thread, _hosts, artifactVars>>

\* ------------------------------------------------------------- fetch
\* What a fetch provider hands back: the artifact maps and, for pab and ab,
\* fetch_environment["build_id"].
DeviceImageResults ==
  {<<>>, system_img :> "/s", boot_img :> "/b", system_img :> "/z",
   (system_img :> "/s") @@ (boot_img :> "/b"), radio_img :> "/r",
   FULL_ZIPFILE :> "/f"}
TestSuiteResults == {<<>>, "vts" :> "/vts"}
ToolResults == {<<>>, "flasher" :> "/bin/flasher"}
FetchTypes == {"local_fs", "gcs", "pab", "ab"}

\* do_fetch after ParseLine: the provider call (which may raise before the
\* console has changed anything), then the assignments of lines 424-450.
\* The result is <<device_image_info', test_suite_info', tools_info',
\* fetch_info', printed>>.
\* (the branch and target are recorded before the provider is called)
FetchResultRecordsFirst(type, branch, target, provided, raises) ==
  IF type \notin FetchTypes
  THEN <<device_image_info, test_suite_info, tools_info, fetch_info,
         "ConsoleArgumentError">>
  ELSE IF raises
  THEN <<device_image_info, test_suite_info, tools_info,
         DictUpdate(fetch_info, [branch |-> branch, target |-> target]),
         "IOError">>
  ELSE <<DictUpdate(device_image_info, provided.device_images),
         DictUpdate(test_suite_info, provided.test_suites),
         IF type = "gcs" THEN DictUpdate(tools_info, provided.tools)
                         ELSE tools_info,
         DictUpdate(fetch_info,
                    [build_id |-> IF type \in {"pab", "ab"}
                                  THEN provided.build_id ELSE "None",
                     branch |-> branch, target |-> target]),
         "ok">>
FetchResult(type, branch, target, provided, raises) ==
  IF type \notin FetchTypes
  THEN <<device_image_info, test_suite_info, tools_info, fetch_info,
         "ConsoleArgumentError">>
  ELSE IF raises
  THEN <<device_image_info, test_suite_info, tools_info, fetch_info, "IOError">>
  ELSE <<DictUpdate(device_image_info, provided.device_images),
         DictUpdate(test_suite_info, provided.test_suites),
         IF type = "gcs" THEN DictUpdate(tools_info, provided.tools)
                         ELSE tools_info,
         DictUpdate(fetch_info,
                    [build_id |-> IF type \in {"pab", "ab"}
                                  THEN provided.build_id ELSE "None",
                     branch |-> branch, target |-> target]),
         "ok">>

do_fetch(type, branch, target, provided, raises) ==
  LET r == FetchResult(type, branch, target, provided, raises) IN
  /\ device_image_info' = r[1]
  /\ test_suite_info' = r[2]
  /\ tools_info' = r[3]
  /\ fetch_info' = r[4]
  /\ flash_calls' = <<>>
  /\ Dispatched([verb |-> "fetch", type |-> type, branch |-> branch,
                 target |-> target, provided |-> provided, raises |-> raises],
                r[5])
  /\ UNCHANGED <<sessionVars, _serials, _hosts>>

\* ------------------------------------------------------------- flash
\* The flashers of lines 570-580: --serial, else the selected serials, else
\* the unspecified device "".
FlashersSelectedFirst(serial) ==
  IF _serials # <<>> THEN _serials
  ELSE IF serial # "" THEN <<serial>> ELSE <<"">>
Flashers(serial) ==
  IF serial # "" THEN <<serial>>
  ELSE IF _serials # <<>> THEN _serials ELSE <<"">>

\* What lines 594-621 call on one flasher; <<>> stands for parser.error.
FlasherCalls(args, partition_image, dev) ==
  IF args.current.given
  THEN <<[op |-> "Flash", serial |-> dev, arg |-> partition_image]>>
  ELSE IF args.flasher_type = "fastboot"
  THEN IF args.gsi = "None" /\ args.build_dir = "None"
       THEN <<>>
       ELSE (IF args.build_dir # "None"
             THEN <<[op |-> "Flashall", serial |-> dev, arg |-> args.build_dir]>>
             ELSE <<>>)
            \o (IF args.gsi # "None"
                THEN <<[op |-> "FlashGSI", serial |-> dev, arg |-> args.gsi]>>
                ELSE <<>>)
  ELSE <<[op |-> "RepackageArtifacts", serial |-> dev, arg |-> device_image_info],
         [op |-> "FlashUsingCustomBinary", serial |-> dev,
          arg |-> device_image_info]>>

\* The loop of lines 593-621 over flashers[k..]: the calls made, and whether
\* the loop ended normally; the flasher numbered fail_at raises in its first
\* call.
RECURSIVE FlashLoop(_, _, _, _, _)
FlashLoop(args, partition_image, devs, k, fail_at) ==
  IF k > Len(devs) THEN <<<<>>, "ok">>
  ELSE LET calls == FlasherCalls(args, partition_image, devs[k]) IN
       IF calls = <<>> THEN <<<<>>, "ConsoleArgumentError">>
       ELSE IF k = fail_at THEN <<<<calls[1]>>, "FlasherError">>
       ELSE LET rest == FlashLoop(args, partition_image, devs, k + 1, fail_at)
            IN <<calls \o rest[1], rest[2]>>

\* (a --flasher_path that is no key of tools_info is used as it is)
FlashResultAnyPath(args, fail_at) ==
  IF /\ args.current.pairs # <<>>
     /\ \E i \in 1..Len(args.current.pairs) :
          args.current.pairs[i][2] \notin DOMAIN device_image_info
  THEN <<<<>>, "KeyError">>
  ELSE LET devs == Flashers(args.serial)
           partition_image ==
             IF args.current.pairs # <<>>
             THEN CurrentPartitions(device_image_info, args.current.pairs)
             ELSE DefaultPartitions(device_image_info)
           loop == FlashLoop(args, partition_image, devs, 1, fail_at)
       IN IF loop[2] # "ok" THEN loop
          ELSE <<loop[1] \o [i \in 1..Len(devs) |->
                    [op |-> "WaitForDevice", serial |-> devs[i], arg |-> "None"]],
                 "ok">>

\* do_flash after ParseLine; the result is <<flash_calls', printed>>.
FlashResult(args, fail_at) ==
  IF args.flasher_path \notin DOMAIN tools_info
  THEN <<<<>>, "KeyError">>
  ELSE IF /\ args.current.pairs # <<>>
          /\ \E i \in 1..Len(args.current.pairs) :
               args.current.pairs[i][2] \notin DOMAIN device_image_info
  THEN <<<<>>, "KeyError">>
  ELSE LET devs == Flashers(args.serial)
           partition_image ==
             IF args.current.pairs # <<>>
             THEN CurrentPartitions(device_image_info, args.current.pairs)
             ELSE DefaultPartitions(device_image_info)
           loop == FlashLoop(args, partition_image, devs, 1, fail_at)
       IN IF loop[2] # "ok" THEN loop
          ELSE <<loop[1] \o [i \in 1..Len(devs) |->
                    [op |-> "WaitForDevice", serial |-> devs[i], arg |-> "None"]],
                 "ok">>

do_flash(args, fail_at) ==
  LET r == FlashResult(args, fail_at) IN
  /\ flash_calls' = r[1]
  /\ Dispatched([verb |-> "flash", args |-> args, fail_at |-> fail_at], r[2])
  /\ UNCHANGED <<sessionVars, _serials, _hosts, device_image_info,
                 test_suite_info, tools_info, fetch_info>>

\* ------------------------------------------------------------ gsispl
\* A version string is a sequence of characters.
DigitVal ==
  ("0" :> 0) @@ ("1" :> 1) @@ ("2" :> 2) @@ ("3" :> 3) @@ ("4" :> 4) @@
  ("5" :> 5) @@ ("6" :> 6) @@ ("7" :> 7) @@ ("8" :> 8) @@ ("9" :> 9)
DigitChar == [n \in 0..9 |-> CHOOSE c \in DOMAIN DigitVal : DigitVal[c] = n]

\* The pieces of s between the occurrences of the character sep.
RECURSIVE SplitOn(_, _)
SplitOn(s, sep) ==
  IF \A i \in 1..Len(s) : s[i] # sep
  THEN <<s>>
  ELSE LET i == CHOOSE j \in 1..Len(s) :
                  s[j] = sep /\ \A k \in 1..(j-1) : s[k] # sep
       IN <<SubSeq(s, 1, i-1)>> \o SplitOn(SubSeq(s, i+1, Len(s)), sep)

IsDigits(f) == f # <<>> /\ \A i \in 1..Len(f) : f[i] \in DOMAIN DigitVal

RECURSIVE ToInt(_)
ToInt(f) ==
  IF f = <<>> THEN 0
  ELSE 10 * ToInt(SubSeq(f, 1, Len(f) - 1)) + DigitVal[f[Len(f)]]

IsLeap(y) == (y % 4 = 0 /\ y % 100 # 0) \/ y % 400 = 0
DaysInMonth(y, m) ==
  IF m = 2 THEN (IF IsLeap(y) THEN 29 ELSE 28)
  ELSE IF m \in {4, 6, 9, 11} THEN 30 ELSE 31

\* datetime.datetime.strptime(version, "%Y-%m-%d"): %Y is four digits, %m and
\* %d are one or two digits (1-12, 1-31), nothing may remain, and the date
\* must exist; the result is <<year, month, day>>, or <<>> for ValueError.
strptimeAnyNumbers(version) ==
  LET f == SplitOn(version, "-") IN
  IF Len(f) = 3 /\ \A i \in 1..3 : IsDigits(f[i])
  THEN <<ToInt(f[1]), ToInt(f[2]), ToInt(f[3])>>
  ELSE <<>>
strptime(version) ==
  LET f == SplitOn(version, "-") IN
  IF /\ Len(f) = 3
     /\ \A i \in 1..3 : IsDigits(f[i])
     /\ Len(f[1]) = 4
     /\ Len(f[2]) \in {1, 2} /\ ToInt(f[2]) \in 1..12
     /\ Len(f[3]) \in {1, 2} /\ ToInt(f[3]) \in 1..31
     /\ ToInt(f[1]) >= 1
     /\ ToInt(f[3]) <= DaysInMonth(ToInt(f[1]), ToInt(f[2]))
  THEN <<ToInt(f[1]), ToInt(f[2]), ToInt(f[3])>>
  ELSE <<>>

\* "{:04d}-{:02d}-{:02d}".format(year, month, day)
Pad2(n) == <<DigitChar[(n \div 10) % 10], DigitChar[n % 10]>>
FormatVersion(date) ==
  Pad2(date[1] \div 100) \o Pad2(date[1] % 100) \o <<"-">> \o Pad2(date[2])
  \o <<"-">> \o Pad2(date[3])

\* A path is the sequence of its components.
\* os.path.join(os.path.dirname(os.path.abspath(gsi_path)),
\*              "system-{}.img".format(version))
OutputPath(gsi_path, version) ==
  SubSeq(gsi_path, 1, Len(gsi_path) - 1)
  \o <<[prefix |-> "system-", version |-> version, suffix |-> ".img"]>>

\* do_gsispl after ParseLine (--version is required); an argument that is
\* not given is <<>>, isfile is os.path.isfile(args.gsi) and err_code the exit status of
\* change_spl.sh.  The result is <<device_image_info', shell_calls', printed>>.
GsiSplResultAlwaysUpdates(args, isfile, err_code) ==
  IF args.version = <<>>
  THEN <<device_image_info, <<>>, "ConsoleArgumentError">>
  ELSE IF args.gsi # <<>> /\ ~isfile
  THEN <<device_image_info, <<>>, "Cannot find system image in given path">>
  ELSE IF args.gsi = <<>> /\ system_img \notin DOMAIN device_image_info
  THEN <<device_image_info, <<>>, "Cannot find system image.">>
  ELSE IF strptime(args.version) = <<>>
  THEN <<device_image_info, <<>>, "version ID should be YYYY-mm-dd format.">>
  ELSE LET gsi_path == IF args.gsi # <<>> THEN args.gsi
                       ELSE device_image_info[system_img]
           version == FormatVersion(strptime(args.version))
           output_path == OutputPath(gsi_path, version)
           call == [gsi_path |-> gsi_path, output_path |-> output_path,
                    version |-> version]
       IN IF err_code = 0
          THEN <<DictSet(device_image_info, system_img, output_path),
                 <<call>>, "ok">>
          ELSE <<device_image_info, <<call>>, "gsispl error">>
GsiSplResult(args, isfile, err_code) ==
  IF args.version = <<>>
  THEN <<device_image_info, <<>>, "ConsoleArgumentError">>
  ELSE IF args.gsi # <<>> /\ ~isfile
  THEN <<device_image_info, <<>>, "Cannot find system image in given path">>
  ELSE IF args.gsi = <<>> /\ system_img \notin DOMAIN device_image_info
  THEN <<device_image_info, <<>>, "Cannot find system image.">>
  ELSE IF strptime(args.version) = <<>>
  THEN <<device_image_info, <<>>, "version ID should be YYYY-mm-dd format.">>
  ELSE LET gsi_path == IF args.gsi # <<>> THEN args.gsi
                       ELSE device_image_info[system_img]
           version == FormatVersion(strptime(args.version))
           output_path == OutputPath(gsi_path, version)
           call == [gsi_path |-> gsi_path, output_path |-> output_path,
                    version |-> version]
       IN IF err_code = 0
          THEN <<IF args.gsi = <<>>
                 THEN DictSet(device_image_info, system_img, output_path)
                 ELSE device_image_info,
                 <<call>>, "ok">>
          ELSE <<device_image_info, <<call>>, "gsispl error">>

do_gsispl(args, isfile, err_code) ==
  LET r == GsiSplResult(args, isfile, err_code) IN
  /\ device_image_info' = r[1]
  /\ shell_calls' = r[2]
  /\ Dispatched([verb |-> "gsispl", args |-> args, isfile |-> isfile,
                 err_code |-> err_code], r[3])
  /\ UNCHANGED <<sessionVars, _serials, _hosts, test_suite_info, tools_info,
                 fetch_info, flash_calls>>

\* ------------------------------------------------ VtiEndpointClient
RECURSIVE Flatten(_)
Flatten(seqs) == IF seqs = <<>> THEN <<>> ELSE Head(seqs) \o Flatten(Tail(seqs))

\* UploadScheduleInfo: one schedule per test_schedule of every build_target
\* of every pb, in the order of the three nested loops.
ScheduleSets(items) ==
  Flatten([p \in 1..Len(items) |->
    Flatten([b \in 1..Len(items[p].build_target) |->
      [t \in 1..Len(items[p].build_target[b].test_schedule) |->
         [manifest_branch |-> items[p].manifest_branch,
          build_target |-> <<items[p].build_target[b].name>>,
          test_name |-> items[p].build_target[b].test_schedule[t]]]])])

\* UploadLabInfo: one lab per pb.
LabSets(items) ==
  [p \in 1..Len(items) |->
     [name |-> items[p].name, owner |-> items[p].owner, host |-> items[p].host]]

\* if pbs is None or len(pbs) == 0: return (empty_ret); else the clear
\* request is next.
UploadEnter(kind, pbs, sets, empty_ret) ==
  IF pbs.none \/ Len(pbs.items) = 0
  THEN [NoUpload EXCEPT !.kind = kind, !.pbs = pbs, !.ret = empty_ret]
  ELSE [NoUpload EXCEPT !.kind = kind, !.pbs = pbs, !.pc = "clear",
                        !.sets = sets]

\* UploadScheduleInfo returns False on an absent or empty list.
UploadScheduleInfo(pbs) ==
  /\ upload.pc = "idle"
  /\ upload' = UploadEnter("schedule_info", pbs, ScheduleSets(pbs.items),
                           "False")
  /\ UNCHANGED <<sessionVars, _serials, _hosts, artifactVars, last, stop,
                 batch, jobs, script, dispatched, shell_calls, lease_job>>

\* UploadLabInfo returns None on an absent or empty list.
UploadLabInfo(pbs) ==
  /\ upload.pc = "idle"
  /\ upload' = UploadEnter("lab_info", pbs, LabSets(pbs.items), "None")
  /\ UNCHANGED <<sessionVars, _serials, _hosts, artifactVars, last, stop,
                 batch, jobs, script, dispatched, shell_calls, lease_job>>

\* What requests.post gives: a response with a status code, or an exception.
Statuses == {"200", "404", "500", "ConnectionError"}

\* return succ
UploadReturn(succ) == IF succ THEN "True" ELSE "False"

\* requests.post(<kind>/v1/clear); a status other than ok returns False.
PostClearIgnoresFailure(status) ==
  /\ upload.pc = "clear"
  /\ upload' =
       LET sent == Append(upload.sent,
                          [url |-> <<upload.kind, "v1", "clear">>,
                           data |-> "na", status |-> status])
       IN IF status = "ConnectionError"
          THEN [upload EXCEPT !.sent = sent, !.pc = "idle", !.ret = "raised"]
          ELSE IF upload.sets = <<>>
          THEN [upload EXCEPT !.sent = sent, !.pc = "idle",
                              !.ret = UploadReturn(status = "200")]
          ELSE [upload EXCEPT !.sent = sent, !.pc = "set", !.i = 1,
                              !.succ = (status = "200")]
  /\ UNCHANGED <<sessionVars, _serials, _hosts, artifactVars, last, stop,
                 batch, jobs, script, dispatched, shell_calls, lease_job>>
PostClear(status) ==
  /\ upload.pc = "clear"
  /\ upload' =
       LET sent == Append(upload.sent,
                          [url |-> <<upload.kind, "v1", "clear">>,
                           data |-> "na", status |-> status])
       IN IF status = "ConnectionError"
          THEN [upload EXCEPT !.sent = sent, !.pc = "idle", !.ret = "raised"]
          ELSE IF status # "200"
          THEN [upload EXCEPT !.sent = sent, !.pc = "idle", !.succ = FALSE,
                              !.ret = "False"]
          ELSE IF upload.sets = <<>>
          THEN [upload EXCEPT !.sent = sent, !.pc = "idle",
                              !.ret = UploadReturn(upload.succ)]
          ELSE [upload EXCEPT !.sent = sent, !.pc = "set", !.i = 1]
  /\ UNCHANGED <<sessionVars, _serials, _hosts, artifactVars, last, stop,
                 batch, jobs, script, dispatched, shell_calls, lease_job>>

\* requests.post(<kind>/v1/set) of the next payload; a status other than ok
\* sets succ = False and the loop goes on; after the last one, return succ.
PostSet(status) ==
  /\ upload.pc = "set"
  /\ upload' =
       LET sent == Append(upload.sent,
                          [url |-> <<upload.kind, "v1", "set">>,
                           data |-> upload.sets[upload.i], status |-> status])
           succ == upload.succ /\ status = "200"
       IN IF status = "ConnectionError"
          THEN [upload EXCEPT !.sent = sent, !.pc = "idle", !.ret = "raised"]
          ELSE IF upload.i = Len(upload.sets)
          THEN [upload EXCEPT !.sent = sent, !.succ = succ, !.pc = "idle",
                              !.ret = UploadReturn(succ)]
          ELSE [upload EXCEPT !.sent = sent, !.succ = succ, !.i = @ + 1]
  /\ UNCHANGED <<sessionVars, _serials, _hosts, artifactVars, last, stop,
                 batch, jobs, script, dispatched, shell_calls, lease_job>>

\* ---- LeaseJob
\* return None, {}
NoJob == [test |-> <<>>, job |-> <<>>]

\* A response: status is response.status_code; json is json.loads of its text,
\* a dict in which return_code and jobs are present or not (a key that is
\* absent is <<>>, a key that is present is <<value>>; the value of jobs is a
\* list).
\* What LeaseJob prints and returns on response r (the hostname is not empty).
LeaseJobOnResponse(r) ==
  IF r.status # "200"
  THEN [printed |-> "LeaseJob error: status_code", ret |-> NoJob]
  ELSE IF r.json.return_code # <<>> /\ r.json.return_code[1] # "SUCCESS"
  THEN [printed |-> "LeaseJob error: response_json", ret |-> NoJob]
  ELSE IF r.json.jobs = <<>>
  THEN [printed |-> "LeaseJob jobs not found in response json", ret |-> NoJob]
  ELSE IF Len(r.json.jobs[1]) > 0
  THEN [printed |-> "none",
        ret |-> [test |-> SplitOn(r.json.jobs[1][1].test_name, "/")[1],
                 job |-> r.json.jobs[1][1]]]
  ELSE [printed |-> "none", ret |-> NoJob]

\* LeaseJob(hostname): an empty hostname returns before any request.
LeaseJob(hostname, r) ==
  /\ lease_job' =
       IF hostname = ""
       THEN [NoLeaseJob EXCEPT !.called = TRUE]
       ELSE [hostname |-> hostname, response |-> r,
             printed |-> LeaseJobOnResponse(r).printed,
             ret |-> LeaseJobOnResponse(r).ret, called |-> TRUE]
  /\ UNCHANGED <<sessionVars, _serials, _hosts, artifactVars, last, stop,
                 batch, jobs, script, dispatched, shell_calls, upload>>

\* -------------------------------------------------------- dispatch
\* A command line is a record: its verb and the parsed arguments.  A command
\* that is a list of lines is [list |-> <<line, ...>>].
IsList(command) == "list" \in DOMAIN command

exit_line == [verb |-> "exit", arg |-> ""]
\* "fetch --type=gcs --path=...": the provider returns an image, a test
\* suite and a tool.
fetch_line ==
  [verb |-> "fetch", type |-> "gcs", branch |-> "None", target |-> "None",
   provided |-> [device_images |-> system_img :> "/s",
                 test_suites |-> "vts" :> "/vts",
                 tools |-> "flasher" :> "/bin/flasher",
                 build_id |-> "None"],
   raises |-> FALSE]
EOF_line == [verb |-> "EOF", arg |-> ""]

\* do_exit: return True, whatever follows the verb.
do_exit(line) ==
  /\ last' = [Outcome(line, "exit") EXCEPT !.ret = "True"]
  /\ UNCHANGED <<sessionVars, _serials, _hosts, artifactVars>>

\* default: the line "EOF" goes to do_exit, anything else to cmd.Cmd.default,
\* which prints "*** Unknown syntax" and returns None.
defaultIgnoresEOF(line) ==
  /\ last' = Outcome(line, "unknown syntax")
  /\ UNCHANGED <<sessionVars, _serials, _hosts, artifactVars>>
default(line) ==
  IF line = EOF_line
  THEN do_exit(line)
  ELSE /\ last' = Outcome(line, "unknown syntax")
       /\ UNCHANGED <<sessionVars, _serials, _hosts, artifactVars>>

\* onecmd on a single line: cmd.Cmd.onecmd looks up do_<verb>, else default;
\* what the handler raises is printed and None is returned.
onecmd(line) ==
  \/ /\ line.verb = "build"
     /\ do_build(line.update, line.id, line.interval)
  \/ /\ line.verb = "device"
     /\ do_device(line.set_serial, line.update, line.interval, line.host, "ok")
  \/ /\ line.verb = "fetch"
     /\ do_fetch(line.type, line.branch, line.target, line.provided,
                 line.raises)
  \/ /\ line.verb = "exit"
     /\ do_exit(line)
  \/ /\ line.verb \notin {"build", "device", "fetch", "exit"}
     /\ default(line)

\* What the same call prints in a process that works on its own copy of the
\* console.
Printed(line) ==
  CASE line.verb = "build" ->
         BuildResult(line.update, line.id, line.interval)[3]
    [] line.verb = "device" ->
         DeviceResult(line.update, line.interval, line.host, "ok")[3]
    [] line.verb = "fetch" ->
         FetchResult(line.type, line.branch, line.target, line.provided,
                     line.raises)[5]
    [] line.verb = "exit" -> "exit"
    [] OTHER -> IF line = EOF_line THEN "exit" ELSE "unknown syntax"

\* cmd.Cmd.cmdloop: stop = self.onecmd(line), until stop.
cmdloop(line) ==
  /\ ~stop
  /\ script.pc = "idle"
  /\ onecmd(line)
  /\ stop' = (last'.ret # "None")
  /\ UNCHANGED <<batch, jobs, script, dispatched, shell_calls, upload, lease_job>>

\* ---- onecmd on a list: one process per line, then join them all
\* p = multiprocessing.Process(target=self.onecmd, args=(sub_command,));
\* jobs.append(p); p.start()
BatchSpawn ==
  /\ batch.pc = "spawn"
  /\ Len(jobs) < Len(batch.lines)
  /\ jobs' = Append(jobs, [line |-> batch.lines[Len(jobs) + 1],
                           state |-> "started", printed |-> "none"])
  /\ batch' = IF Len(jobs') = Len(batch.lines)
              THEN [batch EXCEPT !.pc = "join", !.i = 1] ELSE batch
  /\ UNCHANGED <<sessionVars, _serials, _hosts, artifactVars, last, stop,
                 script, dispatched, shell_calls, upload, lease_job>>

\* The process of job j runs self.onecmd(sub_command) and exits.
ChildRunFailFast(j) ==
  /\ j \in 1..Len(jobs)
  /\ jobs[j].state = "started"
  /\ jobs' = [k \in 1..Len(jobs) |->
               IF k = j
               THEN [jobs[k] EXCEPT !.state = "exited",
                                    !.printed = Printed(jobs[j].line)]
               ELSE IF Printed(jobs[j].line) \in Exceptions
               THEN [jobs[k] EXCEPT !.state = "exited"]
               ELSE jobs[k]]
  /\ UNCHANGED <<sessionVars, _serials, _hosts, artifactVars, last, stop,
                 batch, script, dispatched, shell_calls, upload, lease_job>>
\* (the line runs on the console itself instead of on a copy)
ChildRunInParent(j) ==
  /\ j \in 1..Len(jobs)
  /\ jobs[j].state = "started"
  /\ onecmd(jobs[j].line)
  /\ jobs' = [jobs EXCEPT ![j].state = "exited", ![j].printed = last'.res]
  /\ UNCHANGED <<stop, batch, script, dispatched, shell_calls, upload,
                 lease_job>>
ChildRun(j) ==
  /\ j \in 1..Len(jobs)
  /\ jobs[j].state = "started"
  /\ jobs' = [jobs EXCEPT ![j].state = "exited",
                          ![j].printed = Printed(jobs[j].line)]
  /\ UNCHANGED <<sessionVars, _serials, _hosts, artifactVars, last, stop,
                 batch, script, dispatched, shell_calls, upload, lease_job>>

\* job.join() returns once the process has exited.
JoinedAtOnce(j) == TRUE
Joined(j) == jobs[j].state = "exited"

\* for job in jobs: job.join(); return
BatchJoin ==
  /\ batch.pc = "join"
  /\ batch.i <= Len(jobs)
  /\ Joined(batch.i)
  /\ batch' = [batch EXCEPT !.i = @ + 1]
  /\ UNCHANGED <<sessionVars, _serials, _hosts, artifactVars, last, stop,
                 jobs, script, dispatched, shell_calls, upload, lease_job>>

\* ---- ProcessScript
\* "device --set_serial=%s" % serial: every other argument at its default.
SetSerialLine(serial) ==
  [verb |-> "device", update |-> ParseUpdate(<<>>), set_serial |-> serial,
   interval |-> 30, host |-> <<>>]

\* The script counter after command k: the next command, or return True.
ScriptAdvance ==
  IF script.k < Len(script.commands)
  THEN [script EXCEPT !.k = @ + 1]
  ELSE [script EXCEPT !.pc = "idle", !.ret = "True"]

\* A path is a string, modelled as the sequence of its characters.
DOT_PY == <<".", "p", "y">>

\* str.endswith(suffix)
EndsWithAnywhere(s, suffix) ==
  \E i \in 1..(Len(s) - Len(suffix) + 1) :
    SubSeq(s, i, i + Len(suffix) - 1) = suffix
EndsWith(s, suffix) ==
  /\ Len(s) >= Len(suffix)
  /\ SubSeq(s, Len(s) - Len(suffix) + 1, Len(s)) = suffix

\* Entry: a path that does not end in ".py" returns False; else the module
\* is loaded (imp.load_source) and os.environ is read for the serial (<<>>:
\* unset or empty).
ProcessScript(script_file_path, serial) ==
  /\ script.pc = "idle"
  /\ script' = IF EndsWith(script_file_path, DOT_PY)
               THEN [pc |-> "serial", path |-> script_file_path,
                     loaded |-> TRUE, serial |-> serial, commands |-> <<>>,
                     k |-> 0, ret |-> "none"]
               ELSE [pc |-> "idle", path |-> script_file_path,
                     loaded |-> FALSE, serial |-> <<>>, commands |-> <<>>,
                     k |-> 0, ret |-> "False"]
  /\ dispatched' = <<>>
  /\ UNCHANGED <<sessionVars, _serials, _hosts, artifactVars, last, stop,
                 batch, jobs, shell_calls, upload, lease_job>>

\* if serial: self.onecmd("device --set_serial=%s" % serial)
ScriptSerialNever ==
  /\ script.pc = "serial"
  /\ script' = [script EXCEPT !.pc = "emit"]
  /\ UNCHANGED <<sessionVars, _serials, _hosts, artifactVars, last,
                 dispatched, stop, batch, jobs, shell_calls, upload, lease_job>>
ScriptSerial ==
  /\ script.pc = "serial"
  /\ IF script.serial # <<>>
     THEN /\ onecmd(SetSerialLine(script.serial))
          /\ dispatched' = Append(dispatched, SetSerialLine(script.serial))
     ELSE UNCHANGED <<sessionVars, _serials, _hosts, artifactVars, last,
                      dispatched>>
  /\ script' = [script EXCEPT !.pc = "emit"]
  /\ UNCHANGED <<stop, batch, jobs, shell_calls, upload, lease_job>>

\* commands = script_module.EmitConsoleCommands(); if commands: ...
\* (<<>> stands for both None and the empty list).
ScriptEmit(commands) ==
  /\ script.pc = "emit"
  /\ script' = IF commands = <<>>
               THEN [script EXCEPT !.pc = "idle", !.ret = "True"]
               ELSE [script EXCEPT !.pc = "replay", !.commands = commands,
                                   !.k = 1]
  /\ UNCHANGED <<sessionVars, _serials, _hosts, artifactVars, last, stop,
                 batch, jobs, dispatched, shell_calls, upload, lease_job>>

\* (a replay that ends when onecmd returns True, as cmdloop does)
ScriptReplayStopsOnExit ==
  /\ script.pc = "replay"
  /\ LET command == script.commands[script.k] IN
     /\ dispatched' = Append(dispatched, command)
     /\ IF IsList(command)
        THEN /\ batch' = [pc |-> IF command.list = <<>> THEN "join" ELSE "spawn",
                          lines |-> command.list, i |-> 1]
             /\ jobs' = <<>>
             /\ script' = [script EXCEPT !.pc = "batch"]
             /\ UNCHANGED <<sessionVars, _serials, _hosts, artifactVars, last>>
        ELSE /\ onecmd(command)
             /\ script' = IF last'.ret = "True"
                          THEN [script EXCEPT !.pc = "idle", !.ret = "True"]
                          ELSE ScriptAdvance
             /\ UNCHANGED <<batch, jobs>>
  /\ UNCHANGED <<stop, shell_calls, upload, lease_job>>

\* for command in commands: self.onecmd(command); a list enters the batch
\* branch of onecmd, whose return is BatchReturn.
ScriptReplay ==
  /\ script.pc = "replay"
  /\ LET command == script.commands[script.k] IN
     /\ dispatched' = Append(dispatched, command)
     /\ IF IsList(command)
        THEN /\ batch' = [pc |-> IF command.list = <<>> THEN "join" ELSE "spawn",
                          lines |-> command.list, i |-> 1]
             /\ jobs' = <<>>
             /\ script' = [script EXCEPT !.pc = "batch"]
             /\ UNCHANGED <<sessionVars, _serials, _hosts, artifactVars, last>>
        ELSE /\ onecmd(command)
             /\ script' = ScriptAdvance
             /\ UNCHANGED <<batch, jobs>>
  /\ UNCHANGED <<stop, shell_calls, upload, lease_job>>

\* Every job is joined: onecmd returns None to ProcessScript.
BatchReturn ==
  /\ batch.pc = "join"
  /\ batch.i > Len(jobs)
  /\ script.pc = "batch"
  /\ batch' = [batch EXCEPT !.pc = "idle"]
  /\ script' = [ScriptAdvance EXCEPT !.pc = IF @ = "batch" THEN "replay" ELSE @]
  /\ UNCHANGED <<sessionVars, _serials, _hosts, artifactVars, last, stop,
                 jobs, dispatched, shell_calls, upload, lease_job>>

\* ------------------------------------------------------ specification
Updates == {"single", "start", "stop", "list"}

\* Only "start" reads --interval, only "start"/"stop" read --id and only
\* "single" runs a unit of work inline: the other values are left at one
\* representative.
\* The build and config menus take one refused and one accepted interval;
\* the device and polling menus take the negative one as well.
RegistryIntervals == {0, 30}

BuildCommand ==
  \E update \in Updates, idarg \in IdArgs, interval \in RegistryIntervals :
    /\ update # "start" => interval = 30
    /\ update \in {"single", "list"} => idarg = <<>>
    /\ do_build(update, idarg, interval)
    /\ UNCHANGED dispatchVars

ConfigCommand ==
  \E update \in Updates, idarg \in IdArgs, interval \in RegistryIntervals,
     outcome \in WorkOutcomes :
    /\ update # "start" => interval = 30
    /\ update \in {"single", "list"} => idarg = <<>>
    /\ update # "single" => outcome = "ok"
    /\ do_config(update, idarg, interval, outcome)
    /\ UNCHANGED dispatchVars

DeviceCommand ==
  \E set_serial \in SerialArgs, update \in Updates \ {"list"},
     interval \in Intervals, hostarg \in HostArgs, outcome \in WorkOutcomes :
    /\ update # "start" => interval = 30
    /\ update # "single" => outcome = "ok"
    /\ do_device(set_serial, update, interval, hostarg, outcome)
    /\ UNCHANGED dispatchVars

Next ==
  \/ BuildCommand
  \/ ConfigCommand
  \/ DeviceCommand
  \/ \E t \in 1..MaxThreads : UpdateBuildLoop(t)
  \/ \E t \in 1..MaxThreads : UpdateConfigLoop(t)
  \/ \E t \in 1..MaxThreads : UpdateDeviceRepeat(t)

Spec == Init /\ [][Next]_vars

NextRegistry ==
  \/ BuildCommand
  \/ ConfigCommand
  \/ \E t \in 1..MaxThreads : UpdateBuildLoop(t)
  \/ \E t \in 1..MaxThreads : UpdateConfigLoop(t)

\* The registry commands never read the host list.
InitRegistry == Init /\ _hosts = 1

SpecRegistry == InitRegistry /\ [][NextRegistry]_vars

NextDevice ==
  \/ DeviceCommand
  \/ \E t \in 1..MaxThreads : UpdateDeviceRepeat(t)

SpecDevice == Init /\ [][NextDevice]_vars

\* ---- starts with any integer as --id (int(args.id) is not range-checked)
SignedIdArgs == {<<>>, <<-1>>, <<0>>, <<1>>}

IdStartCommand ==
  \E idarg \in SignedIdArgs :
    /\ \/ do_build("start", idarg, 30)
       \/ do_config("start", idarg, 30, "ok")
    /\ UNCHANGED dispatchVars

NextIds ==
  \/ IdStartCommand
  \/ \E t \in 1..MaxThreads : UpdateBuildLoop(t)
  \/ \E t \in 1..MaxThreads : UpdateConfigLoop(t)

SpecIds == InitRegistry /\ [][NextIds]_vars

\* ---- the commands that read the host list
LeaseCommand ==
  \E hostarg \in HostArgs, outcome \in {"ok", "socket.error"} :
    /\ HostResult(hostarg) # "ok" => outcome = "ok"
    /\ do_lease(hostarg, outcome)
    /\ UNCHANGED dispatchVars

DeviceHostCommand ==
  \E update \in Updates \ {"list"}, hostarg \in HostArgs :
    /\ do_device(<<>>, update, 30, hostarg, "ok")
    /\ UNCHANGED dispatchVars

NextHosts ==
  \/ LeaseCommand
  \/ DeviceHostCommand
  \/ \E t \in 1..MaxThreads : UpdateDeviceRepeat(t)

SpecHosts == Init /\ [][NextHosts]_vars

\* All three kinds of session together, on the start and stop sub-commands.
PollingCommand ==
  \E update \in {"start", "stop"}, idarg \in {<<>>, <<1>>},
     interval \in Intervals, hostarg \in {<<>>, <<MaxHosts>>} :
    /\ update # "start" => interval = 30
    /\ \/ hostarg = <<>> /\ do_build(update, idarg, interval)
       \/ hostarg = <<>> /\ do_config(update, idarg, interval, "ok")
       \/ idarg = <<>> /\ do_device(<<>>, update, interval, hostarg, "ok")
    /\ UNCHANGED dispatchVars

NextPolling ==
  \/ PollingCommand
  \/ \E t \in 1..MaxThreads : UpdateBuildLoop(t)
  \/ \E t \in 1..MaxThreads : UpdateConfigLoop(t)
  \/ \E t \in 1..MaxThreads : UpdateDeviceRepeat(t)

SpecPolling == InitRegistry /\ [][NextPolling]_vars

\* Starts that are accepted or refused as already running, and stops.
StartStopCommand ==
  \E update \in {"start", "stop"}, idarg \in {<<>>, <<1>>} :
    /\ \/ do_build(update, idarg, 30)
       \/ do_config(update, idarg, 30, "ok")
       \/ idarg = <<>> /\ do_device(<<>>, update, 30, <<>>, "ok")
    /\ UNCHANGED dispatchVars

NextStartStop ==
  \/ StartStopCommand
  \/ \E t \in 1..MaxThreads : UpdateBuildLoop(t)
  \/ \E t \in 1..MaxThreads : UpdateConfigLoop(t)
  \/ \E t \in 1..MaxThreads : UpdateDeviceRepeat(t)

SpecStartStop == InitRegistry /\ [][NextStartStop]_vars

\* ---- sessions next to the commands that write the maps and the serials
SharedBuildCommand ==
  \E update \in {"start", "stop"} :
    /\ do_build(update, <<1>>, 30)
    /\ UNCHANGED dispatchVars

SharedConfigCommand ==
  /\ do_config("start", <<1>>, 30, "ok")
  /\ UNCHANGED dispatchVars

SharedDeviceCommand ==
  \E set_serial \in {<<>>, <<"S1">>}, update \in {"start", "stop"} :
    /\ do_device(set_serial, update, 30, <<>>, "ok")
    /\ UNCHANGED dispatchVars

SharedFetchCommand ==
  \E raises \in BOOLEAN :
    /\ do_fetch("gcs", "None", "None",
                IF raises
                THEN [device_images |-> <<>>, test_suites |-> <<>>,
                      tools |-> <<>>, build_id |-> "None"]
                ELSE [device_images |-> system_img :> "/s",
                      test_suites |-> "vts" :> "/vts",
                      tools |-> "flasher" :> "/bin/flasher",
                      build_id |-> "None"],
                raises)
    /\ UNCHANGED dispatchVars

NextShared ==
  \/ SharedBuildCommand
  \/ SharedConfigCommand
  \/ SharedDeviceCommand
  \/ SharedFetchCommand
  \/ \E t \in 1..MaxThreads : UpdateBuildLoop(t)
  \/ \E t \in 1..MaxThreads : UpdateConfigLoop(t)
  \/ \E t \in 1..MaxThreads : UpdateDeviceRepeat(t)

SpecShared == InitRegistry /\ [][NextShared]_vars

\* Every started thread is scheduled: a loop that can take a step takes it.
FairPolling ==
  /\ InitRegistry /\ [][NextStartStop]_vars
  /\ \A t \in 1..MaxThreads : WF_vars(UpdateBuildLoop(t))
  /\ \A t \in 1..MaxThreads : WF_vars(UpdateConfigLoop(t))
  /\ \A t \in 1..MaxThreads : WF_vars(UpdateDeviceRepeat(t))

\* ---- the artifact commands (no polling thread takes part)
system_part == <<"s", "y", "s", "t", "e", "m">>

\* Arguments that the taken branch does not read stay at their defaults.
FlashArgs ==
  {a \in [current : {[given |-> FALSE, pairs |-> <<>>],
                     [given |-> TRUE, pairs |-> <<>>],
                     [given |-> TRUE, pairs |-> <<<<system_part, system_img>>>>],
                     [given |-> TRUE, pairs |-> <<<<system_part, radio_img>>,
                                                  <<system_part, boot_img>>>>]},
          serial : {"", "S9"},
          flasher_path : {"None", "flasher"},
          flasher_type : {"fastboot", "custom"},
          gsi : {"None", "/gsi"},
          build_dir : {"None", "/dir"}] :
     /\ a.flasher_path = "None" =>
          /\ a.current = [given |-> FALSE, pairs |-> <<>>]
          /\ a.serial = ""
     /\ (a.current.given \/ a.flasher_path = "None") =>
          /\ a.flasher_type = "fastboot"
          /\ a.gsi = "None"
          /\ a.build_dir = "None"
     /\ a.flasher_type = "custom" => a.gsi = "None" /\ a.build_dir = "None"}

\* What the provider returns in one fetch (tools only from gcs).
ProviderResults ==
  {[device_images |-> m, test_suites |-> <<>>] : m \in DeviceImageResults}
  \cup {[device_images |-> m, test_suites |-> "vts" :> "/vts"] :
          m \in {<<>>, system_img :> "/s"}}

\* --branch and --target are given for the build servers (pab, ab) only.
FetchCommand ==
  \E type \in FetchTypes \cup {"bogus"}, got \in ProviderResults,
     tools \in ToolResults, raises \in BOOLEAN :
    /\ type # "gcs" => tools = <<>>
    /\ (raises \/ type = "bogus") =>
         got = [device_images |-> <<>>, test_suites |-> <<>>] /\ tools = <<>>
    /\ type = "bogus" => ~raises
    /\ do_fetch(type,
                IF type \in {"pab", "ab"} THEN "br" ELSE "None",
                IF type \in {"pab", "ab"} THEN "tg" ELSE "None",
                [device_images |-> got.device_images,
                 test_suites |-> got.test_suites,
                 tools |-> tools,
                 build_id |-> IF type \in {"pab", "ab"} THEN "B1" ELSE "None"],
                raises)
    /\ UNCHANGED dispatchVars

FlashCommand ==
  \E args \in FlashArgs, fail_at \in 0..MaxFail :
    do_flash(args, fail_at) /\ UNCHANGED dispatchVars

NextArtifacts ==
  \/ FetchCommand
  \/ FlashCommand

\* The selected serials are whatever earlier "device --set_serial" left.
InitArtifacts ==
  /\ build_thread = <<>>
  /\ schedule_thread = <<>>
  /\ update_thread = 0
  /\ threads = <<>>
  /\ _hosts = 1
  /\ _serials \in {<<>>, SplitSerials(<<"S1", ",", "S2">>)}
  /\ device_image_info = <<>>
  /\ test_suite_info = <<>>
  /\ tools_info = <<>>
  /\ fetch_info = <<>>
  /\ flash_calls = <<>>
  /\ last = Outcome([verb |-> "none"], "none")
  /\ stop = FALSE
  /\ batch = [pc |-> "idle", lines |-> <<>>, i |-> 1]
  /\ jobs = <<>>
  /\ script = [pc |-> "idle", path |-> <<>>, loaded |-> FALSE,
               serial |-> <<>>, commands |-> <<>>, k |-> 0, ret |-> "none"]
  /\ dispatched = <<>>
  /\ shell_calls = <<>>
  /\ upload = NoUpload
  /\ lease_job = NoLeaseJob

SpecArtifacts == InitArtifacts /\ [][NextArtifacts]_vars

\* ---- gsispl on what was fetched
v_2020_13_40 == <<"2", "0", "2", "0", "-", "1", "3", "-", "4", "0">>
v_2020_02_30 == <<"2", "0", "2", "0", "-", "0", "2", "-", "3", "0">>
v_2020_02_29 == <<"2", "0", "2", "0", "-", "0", "2", "-", "2", "9">>
v_2021_02_29 == <<"2", "0", "2", "1", "-", "0", "2", "-", "2", "9">>
v_2020_1_5 == <<"2", "0", "2", "0", "-", "1", "-", "5">>
v_2020_01_05 == <<"2", "0", "2", "0", "-", "0", "1", "-", "0", "5">>
v_20_01_05 == <<"2", "0", "-", "0", "1", "-", "0", "5">>
v_2020_01 == <<"2", "0", "2", "0", "-", "0", "1">>
v_2020_01_5x == <<"2", "0", "2", "0", "-", "0", "1", "-", "5", "x">>
v_0000_01_01 == <<"0", "0", "0", "0", "-", "0", "1", "-", "0", "1">>

Versions ==
  {v_2020_13_40, v_2020_02_30, v_2020_02_29, v_2021_02_29, v_2020_1_5,
   v_2020_01_05, v_20_01_05, v_2020_01, v_2020_01_5x, v_0000_01_01}

GsiSplCommand ==
  \E version \in Versions \cup {<<>>}, gsi \in {<<>>, <<"g", "gsi.img">>},
     isfile \in BOOLEAN, err_code \in {0, 1} :
    /\ gsi = <<>> => isfile
    /\ do_gsispl([gsi |-> gsi, version |-> version], isfile, err_code)
    /\ UNCHANGED <<stop, batch, jobs, script, dispatched, upload, lease_job>>

\* A local_fs fetch that reports system.img, or nothing.
GsiFetchCommand ==
  \E images \in {<<>>, system_img :> <<"d", "system.img">>} :
    /\ do_fetch("local_fs", "None", "None",
                [device_images |-> images, test_suites |-> <<>>,
                 tools |-> <<>>, build_id |-> "None"], FALSE)
    /\ UNCHANGED dispatchVars

NextGsiSpl ==
  \/ GsiFetchCommand
  \/ GsiSplCommand

SpecGsiSpl == InitArtifacts /\ [][NextGsiSpl]_vars

\* ---- uploads of schedule and lab information
\* A pb with no build target, with one test, with two targets (one of them
\* without tests), and two pbs.
pb_empty == [manifest_branch |-> "b0", build_target |-> <<>>]
pb_one ==
  [manifest_branch |-> "b1",
   build_target |-> <<[name |-> "t1", test_schedule |-> <<"x">>]>>]
pb_two ==
  [manifest_branch |-> "b2",
   build_target |-> <<[name |-> "t1", test_schedule |-> <<>>],
                      [name |-> "t2", test_schedule |-> <<"x", "y">>]>>]

SchedulePbs ==
  {[none |-> TRUE, items |-> <<>>], [none |-> FALSE, items |-> <<>>],
   [none |-> FALSE, items |-> <<pb_empty>>],
   [none |-> FALSE, items |-> <<pb_one>>],
   [none |-> FALSE, items |-> <<pb_two>>],
   [none |-> FALSE, items |-> <<pb_one, pb_two>>],
   [none |-> FALSE, items |-> <<pb_two, pb_empty, pb_one>>]}

lab_a == [name |-> "a", owner |-> "o", host |-> <<"h1">>]
lab_b == [name |-> "b", owner |-> "o", host |-> <<>>]

LabPbs ==
  {[none |-> TRUE, items |-> <<>>], [none |-> FALSE, items |-> <<>>],
   [none |-> FALSE, items |-> <<lab_a>>],
   [none |-> FALSE, items |-> <<lab_a, lab_b>>],
   [none |-> FALSE, items |-> <<lab_b, lab_a, lab_a>>]}

NextUpload ==
  \/ \E pbs \in SchedulePbs : UploadScheduleInfo(pbs)
  \/ \E pbs \in LabPbs : UploadLabInfo(pbs)
  \/ \E status \in Statuses : PostClear(status)
  \/ \E status \in Statuses : PostSet(status)

SpecUpload == InitRegistry /\ [][NextUpload]_vars

\* ---- job leases
job_vts == [test_name |-> <<"v", "t", "s", "/", "a">>, device |-> "d1"]
job_cts == [test_name |-> <<"c", "t", "s">>, device |-> "d2"]

\* The responses of the job queue: every status with every body.
Responses ==
  [status : {"200", "404", "500"},
   json : [return_code : {<<>>, <<"SUCCESS">>, <<"FAIL">>, <<"NOT_FOUND">>},
           jobs : {<<>>, <<<<>>>>, <<<<job_vts>>>>, <<<<job_cts, job_vts>>>>,
                   <<<<job_vts, job_cts>>>>}]]

LeaseJobCall ==
  \E hostname \in {"", "host1", "host2"}, r \in Responses :
    /\ hostname = "" => r = [status |-> "200",
                            json |-> [return_code |-> <<>>, jobs |-> <<>>]]
    /\ LeaseJob(hostname, r)

NextLeaseJob ==
  \/ LeaseJobCall

SpecLeaseJob == InitRegistry /\ [][NextLeaseJob]_vars

\* ---- the read loop
build_start_1 ==
  [verb |-> "build", update |-> "start", id |-> <<1>>, interval |-> 30]
build_stop_1 ==
  [verb |-> "build", update |-> "stop", id |-> <<1>>, interval |-> 30]
\* No line of these menus registers id 2: stopping it raises KeyError.
build_stop_2 ==
  [verb |-> "build", update |-> "stop", id |-> <<2>>, interval |-> 30]
build_start_interval_0 ==
  [verb |-> "build", update |-> "start", id |-> <<>>, interval |-> 0]
\* "build --update=restart": refused by the argument parser.
build_update_restart ==
  [verb |-> "build", update |-> "restart", id |-> <<>>, interval |-> 30]
bogus_line == [verb |-> "bogus", arg |-> ""]

LoopLines ==
  {build_start_1, build_stop_1, build_stop_2, build_start_interval_0,
   build_update_restart, bogus_line, exit_line, EOF_line, [verb |-> "exit", arg |-> "now"],
   [verb |-> "EOF", arg |-> "now"], SetSerialLine(<<"S1">>),
   [SetSerialLine(<<>>) EXCEPT !.update = "stop"]}

ReadLine == \E line \in LoopLines : cmdloop(line)

NextLoop ==
  \/ ReadLine
  \/ \E t \in 1..MaxThreads : UpdateBuildLoop(t)
  \/ \E t \in 1..MaxThreads : UpdateDeviceRepeat(t)

SpecLoop == InitRegistry /\ [][NextLoop]_vars

\* ---- script replay
ScriptOutputs ==
  {<<>>,
   <<build_start_1, build_stop_2, build_stop_1>>,
   <<[list |-> <<build_start_1, build_stop_2, bogus_line>>]>>,
   <<bogus_line, [list |-> <<build_stop_1, exit_line>>], exit_line>>,
   <<[list |-> <<>>], build_start_1>>,
   <<[list |-> <<fetch_line, SetSerialLine(<<"S1">>), build_start_1,
                 build_start_1>>],
     build_start_1>>,
   <<exit_line, build_start_1, [list |-> <<EOF_line, exit_line>>],
     fetch_line>>}

\* Script paths: run.py, run.sh, run.py.txt, runpy, run.PY.
run_py == <<"r", "u", "n">> \o DOT_PY
run_sh == <<"r", "u", "n", ".", "s", "h">>
run_py_txt == run_py \o <<".", "t", "x", "t">>
runpy == <<"r", "u", "n", "p", "y">>
run_PY == <<"r", "u", "n", ".", "P", "Y">>

ScriptPaths == {run_py, run_sh, run_py_txt, runpy, run_PY}

NextScript ==
  \/ \E script_file_path \in ScriptPaths, serial \in SerialArgs :
       ProcessScript(script_file_path, serial)
  \/ ScriptSerial
  \/ \E commands \in ScriptOutputs : ScriptEmit(commands)
  \/ ScriptReplay
  \/ BatchSpawn
  \/ \E j \in 1..Len(jobs) : ChildRun(j)
  \/ BatchJoin
  \/ BatchReturn

SpecScript == InitRegistry /\ [][NextScript]_vars

\* ---- device lines with and without --update, typed or synthesized
DeviceLineCommand ==
  \E set_serial \in {<<>>, <<"S1">>}, arg \in {<<>>, <<"start">>, <<"stop">>},
     hostarg \in {<<>>, <<0>>} :
    /\ script.pc = "idle"
    /\ do_device(set_serial, ParseUpdate(arg), 30, hostarg, "ok")
    /\ UNCHANGED dispatchVars

NextDefaults ==
  \/ DeviceLineCommand
  \/ \E serial \in SerialArgs : ProcessScript(run_py, serial)
  \/ ScriptSerial
  \/ ScriptEmit(<<>>)
  \/ \E t \in 1..MaxThreads : UpdateDeviceRepeat(t)

SpecDefaults == Init /\ [][NextDefaults]_vars

\* ============================================================ properties
\* A step in which no polling thread moved: a dispatched command line.
CommandStep ==
  /\ Len(threads') >= Len(threads)
  /\ \A t \in 1..Len(threads) : threads'[t].pc = threads[t].pc

\* The registry a build or config command works on, before and after it.
RegistryOf(verb) == IF verb = "build" THEN build_thread ELSE schedule_thread
RegistryAfter(verb) == IF verb = "build" THEN build_thread' ELSE schedule_thread'

IsSessionStart(l) ==
  l.cmd.verb \in {"build", "config"} /\ l.cmd.update = "start"
IsSessionStop(l) ==
  l.cmd.verb \in {"build", "config"} /\ l.cmd.update = "stop"

\* id is registered and its thread carries no stop flag.
FlaggedRunning(reg, id) ==
  id \in DOMAIN reg /\ threads[reg[id]].keep_running = "absent"
\* id is registered and Stop has set its thread's flag.
FlaggedStopped(reg, id) ==
  id \in DOMAIN reg /\ threads[reg[id]].keep_running = "False"

\* C1: a Start with an explicit id whose registered session is still flagged
\* running is rejected (as already running whenever its interval is valid):
\* no thread is created and no registry or thread changes.
C1_StartOnRunningIdRejected ==
  [][ (CommandStep /\ IsSessionStart(last') /\ last'.cmd.id # <<>>
        /\ FlaggedRunning(RegistryOf(last'.cmd.verb), last'.cmd.id[1]))
      => /\ last'.res \in {"already running", "ConsoleArgumentError"}
         /\ last'.cmd.interval > 0 => last'.res = "already running"
         /\ last'.ret = "None"
         /\ threads' = threads
         /\ build_thread' = build_thread
         /\ schedule_thread' = schedule_thread ]_vars

C1_Witness ==
  /\ last.cmd.verb = "build" /\ last.cmd.update = "start"
  /\ last.cmd.id = <<1>> /\ last.cmd.interval = 30
  /\ last.res = "already running"
  /\ FlaggedRunning(build_thread, 1)
  /\ threads[build_thread[1]].pc = "sleep"

\* C2: once Stop has flagged a registered id, a Start with that explicit id
\* (and a valid interval) succeeds: a new thread is created and registered
\* under the id, it carries no stop flag, and no other thread or entry changes.
C2_StoppedIdRestarts ==
  [][ (CommandStep /\ IsSessionStart(last') /\ last'.cmd.id # <<>>
        /\ last'.cmd.interval > 0
        /\ FlaggedStopped(RegistryOf(last'.cmd.verb), last'.cmd.id[1]))
      => LET verb == last'.cmd.verb
             id == last'.cmd.id[1]
             new == Len(threads) + 1
         IN /\ last'.res = "started"
            /\ Len(threads') = new
            /\ SubSeq(threads', 1, Len(threads)) = threads
            /\ threads'[new] = [kind |-> verb, pc |-> "top",
                                keep_running |-> "absent",
                                interval |-> last'.cmd.interval]
            /\ DOMAIN RegistryAfter(verb) = DOMAIN RegistryOf(verb)
            /\ RegistryAfter(verb)[id] = new
            /\ \A i \in DOMAIN RegistryOf(verb) \ {id} :
                 RegistryAfter(verb)[i] = RegistryOf(verb)[i] ]_vars

C2_Witness ==
  /\ last.cmd.verb = "config" /\ last.cmd.update = "start"
  /\ last.cmd.id = <<2>> /\ last.res = "started"
  /\ Len(threads) = 2
  /\ schedule_thread[2] = 2
  /\ threads[1].kind = "config" /\ threads[1].keep_running = "False"
  /\ threads[2].keep_running = "absent"

C4_OnlyCancellationEndsLoop ==
  \A t \in 1..Len(threads) :
    threads[t].pc \in {"done", "dead"} => threads[t].keep_running = "False"

\* C5: Stop changes nothing but the stop flag of the session's thread (the
\* thread is where it was: Stop has not waited for it), and under fair
\* scheduling of the loops every thread whose flag is set terminates.
StopTarget(l) ==
  IF l.cmd.verb = "build" THEN build_thread[l.cmd.id[1]]
  ELSE IF l.cmd.verb = "config" THEN schedule_thread[l.cmd.id[1]]
  ELSE update_thread

C5_StopOnlySetsFlag ==
  [][ (CommandStep /\ last'.cmd.update = "stop" /\ last'.res = "stopped")
      => /\ Len(threads') = Len(threads)
         /\ threads'[StopTarget(last')].keep_running = "False"
         /\ \A t \in 1..Len(threads) :
              threads'[t] = [threads[t] EXCEPT !.keep_running =
                               IF t = StopTarget(last') THEN "False" ELSE @]
         /\ UNCHANGED <<build_thread, schedule_thread, update_thread>> ]_vars

C5_FlaggedLoopTerminates ==
  \A t \in 1..MaxThreads :
    [] ((t <= Len(threads) /\ threads[t].keep_running = "False")
        => <> (t <= Len(threads) /\ threads[t].pc \in {"done", "dead"}))

C5_StopIsFireAndForget == C5_StopOnlySetsFlag /\ C5_FlaggedLoopTerminates

\* Stop has returned while the device loop is still inside its unit of work.
C5_Witness ==
  /\ last.cmd.verb = "device" /\ last.cmd.update = "stop"
  /\ last.res = "stopped"
  /\ update_thread # 0
  /\ threads[update_thread].keep_running = "False"
  /\ threads[update_thread].pc = "work"

\* C6: a Start with interval <= 0 is rejected with an error (the argument
\* error, unless the device command's host lookup has already failed) and
\* changes no registry, no handle and no thread.
C6_NonPositiveIntervalRejected ==
  [][ (CommandStep /\ last'.cmd.verb \in {"build", "config", "device"}
        /\ last'.cmd.update = "start" /\ last'.cmd.interval <= 0)
      => /\ last'.res \in {"ConsoleArgumentError", "IndexError"}
         /\ last'.res = "IndexError" =>
              last'.cmd.verb = "device" /\ last'.cmd.host # <<>>
         /\ last'.ret = "None"
         /\ UNCHANGED sessionVars ]_vars

C6_Witness ==
  /\ last.cmd.verb = "device" /\ last.cmd.update = "start"
  /\ last.cmd.interval = 0 /\ last.cmd.host = <<>>
  /\ last.res = "ConsoleArgumentError"
  /\ update_thread = 0
  /\ DOMAIN build_thread = {1}
  /\ \A t \in 1..Len(threads) : threads[t].kind # "device"

\* C7: a device Start while the device thread carries no stop flag is
\* rejected and leaves the handle and the threads as they were; so at most
\* one device thread without a stop flag ever exists.
C7_OneDeviceSession ==
  /\ [] (Cardinality({t \in 1..Len(threads) :
                        /\ threads[t].kind = "device"
                        /\ threads[t].keep_running = "absent"}) <= 1)
  /\ [][ (CommandStep /\ last'.cmd.verb = "device"
           /\ last'.cmd.update = "start" /\ update_thread # 0
           /\ threads[update_thread].keep_running = "absent")
         => /\ last'.res \in {"already running", "ConsoleArgumentError",
                              "IndexError"}
            /\ (last'.cmd.interval > 0
                 /\ (last'.cmd.host = <<>> => _hosts = 1)
                 /\ (last'.cmd.host # <<>> => last'.cmd.host[1] < _hosts))
               => last'.res = "already running"
            /\ threads' = threads
            /\ update_thread' = update_thread ]_vars

C7_Witness ==
  /\ last.cmd.verb = "device" /\ last.cmd.update = "start"
  /\ last.cmd.interval = 30
  /\ last.res = "already running"
  /\ update_thread = 1 /\ Len(threads) = 1
  /\ threads[1].keep_running = "absent"

\* C8: a Stop on an id absent from its registry, or a device Stop when no
\* device thread was ever created, prints an error, returns nothing that
\* ends the command loop and changes no registry, handle or thread.
C8_StopOnMissingSession ==
  [][ (CommandStep /\ last'.cmd.update = "stop")
      => /\ (IsSessionStop(last') /\ last'.cmd.id # <<>>
              /\ last'.cmd.id[1] \notin DOMAIN RegistryOf(last'.cmd.verb))
            => /\ last'.res = "KeyError"
               /\ last'.ret = "None"
               /\ UNCHANGED sessionVars
         /\ (last'.cmd.verb = "device" /\ update_thread = 0)
            => /\ last'.res \in {"AttributeError", "IndexError"}
               /\ last'.cmd.host = <<>> => last'.res = "AttributeError"
               /\ last'.ret = "None"
               /\ UNCHANGED sessionVars ]_vars

\* A config Stop on an id only the build registry knows.
C8_Witness ==
  /\ last.cmd.verb = "config" /\ last.cmd.update = "stop"
  /\ last.cmd.id = <<1>> /\ last.res = "KeyError"
  /\ 1 \notin DOMAIN schedule_thread
  /\ FlaggedRunning(build_thread, 1)


\* new is old with the entries of reported written over it.
Merged(old, new, reported) ==
  /\ DOMAIN new = DOMAIN old \cup DOMAIN reported
  /\ \A k \in DOMAIN reported : new[k] = reported[k]
  /\ \A k \in DOMAIN old \ DOMAIN reported : new[k] = old[k]

\* C9: a successful fetch leaves each artifact map (device images, test
\* suites, tools) holding every name it reports at the path it reports and
\* every other name at the path it had; a fetch that fails leaves the three
\* maps as they were.  By induction every name reported so far resolves to
\* the path of the most recent fetch that reported it.
C9_FetchMergesAccumulate ==
  [][last'.cmd.verb = "fetch" =>
       IF last'.res = "ok"
       THEN /\ Merged(device_image_info, device_image_info',
                      last'.cmd.provided.device_images)
            /\ Merged(test_suite_info, test_suite_info',
                      last'.cmd.provided.test_suites)
            /\ Merged(tools_info, tools_info', last'.cmd.provided.tools)
       ELSE UNCHANGED <<device_image_info, test_suite_info, tools_info>>]_vars

\* boot.img was fetched earlier; the last fetch reported system.img at a new
\* path and nothing else.
C9_Witness ==
  /\ last.cmd.verb = "fetch"
  /\ last.res = "ok"
  /\ last.cmd.provided.device_images = (system_img :> "/z")
  /\ device_image_info = (system_img :> "/z") @@ (boot_img :> "/b")
  /\ "flasher" \in DOMAIN tools_info

\* A name without a trailing ".img".
StripImg(n) ==
  IF Len(n) >= Len(DOT_IMG) /\ SubSeq(n, Len(n) - Len(DOT_IMG) + 1, Len(n)) = DOT_IMG
  THEN SubSeq(n, 1, Len(n) - Len(DOT_IMG))
  ELSE n

DefaultNames == {_DEFAULT_FLASH_IMAGES[i] : i \in 1..Len(_DEFAULT_FLASH_IMAGES)}

\* m holds the fetched default-list images under their stripped names, and
\* nothing else.
IsDefaultMap(m) ==
  /\ \A n \in DefaultNames \cap DOMAIN device_image_info :
       /\ StripImg(n) \in DOMAIN m
       /\ m[StripImg(n)] = device_image_info[n]
  /\ \A p \in DOMAIN m :
       \E n \in DefaultNames \cap DOMAIN device_image_info : p = StripImg(n)

FlashCallsOf(dev) ==
  {i \in 1..Len(flash_calls) :
     flash_calls[i].op = "Flash" /\ flash_calls[i].serial = dev}

BatchOver == batch.pc = "idle" \/ (batch.pc = "join" /\ batch.i > Len(jobs))

\* C11: while a batch call is in progress every line that has finished has
\* printed what onecmd prints for that line on its own (its own error line
\* when its handler raises), and when the call has joined its jobs every
\* line of the batch has finished, whatever the other lines did.
C11_BatchIsolatesFailures ==
  /\ batch.pc # "idle" =>
       \A j \in 1..Len(jobs) :
         jobs[j].state = "exited" => jobs[j].printed = Printed(jobs[j].line)
  /\ (batch.pc = "join" /\ batch.i > Len(jobs)) =>
       /\ Len(jobs) = Len(batch.lines)
       /\ \A j \in 1..Len(jobs) :
            jobs[j].state = "exited" /\ jobs[j].printed # "none"

\* Three lines, the second of which raises KeyError: the first started its
\* session and the third printed its unknown-command message.
C11_Witness ==
  /\ batch.pc = "join" /\ batch.i > Len(jobs)
  /\ Len(jobs) = 3
  /\ jobs[1].printed = "started"
  /\ jobs[2].printed = "KeyError"
  /\ jobs[3].printed = "unknown syntax"

\* C12: a line whose handler (or argument parser) raised has printed the
\* exception under its type name, onecmd has returned None and the read loop
\* has not stopped; the loop stops on exit and end of input only.
C12_HandlerErrorsAreContained ==
  /\ last.res \in Exceptions => (last.ret = "None" /\ ~stop)
  /\ stop => (last.res \notin Exceptions /\ last.cmd.verb \in {"exit", "EOF"})

\* The argument parser refused the line while a session was running.
C12_Witness ==
  /\ last.cmd = build_update_restart
  /\ last.res = "ConsoleArgumentError"
  /\ last.ret = "None"
  /\ ~stop
  /\ 1 \in DOMAIN build_thread

\* C14: when the batch call returns there is one process per line of the
\* list, in order, and every one of them has exited.
C14_BatchJoinsEveryJob ==
  BatchOver =>
    /\ Len(jobs) = Len(batch.lines)
    /\ \A j \in 1..Len(jobs) :
         jobs[j].line = batch.lines[j] /\ jobs[j].state = "exited"

C14_Witness ==
  /\ batch.pc = "idle"
  /\ Len(batch.lines) = 3
  /\ Len(jobs) = 3
  /\ script.pc = "idle" /\ script.ret = "True"

\* C15: the read loop has stopped exactly when the last line it dispatched
\* was an exit command or the line "EOF"; both give the same result, and a
\* line with an unrecognized verb is reported as unknown and stops nothing.
C15_LoopStopsOnExitOrEOF ==
  /\ stop <=> (last.cmd.verb = "exit" \/ last.cmd = EOF_line)
  /\ (last.cmd.verb = "exit" \/ last.cmd = EOF_line) =>
       (last.res = "exit" /\ last.ret = "True")
  /\ last.cmd.verb \in {"bogus"} =>
       (last.res = "unknown syntax" /\ last.ret = "None" /\ ~stop)

C15_Witness ==
  /\ stop
  /\ last.cmd = EOF_line
  /\ last.ret = "True"
  /\ 1 \in DOMAIN build_thread



\* The synthesized line, when the environment supplies a serial.
SerialPart ==
  IF script.serial # <<>> THEN <<SetSerialLine(script.serial)>> ELSE <<>>

\* C20: what ProcessScript has handed to onecmd is, at every point, the
\* synthesized "device --set_serial" line (when the environment gives a
\* serial) followed by the emitted commands in the order emitted, as far as
\* the replay has got: the synthesized line goes out before the script is
\* asked for its commands, a command goes out only when the one before it
\* has returned, an empty or absent list adds nothing, and a path that is
\* not a .py file dispatches nothing.
C20_ScriptReplayOrder ==
  /\ script.pc = "serial" => dispatched = <<>>
  /\ script.pc = "emit" => dispatched = SerialPart
  /\ script.pc = "replay" =>
       dispatched = SerialPart \o SubSeq(script.commands, 1, script.k - 1)
  /\ script.pc = "batch" =>
       /\ dispatched = SerialPart \o SubSeq(script.commands, 1, script.k)
       /\ batch.pc # "idle"
  /\ (script.pc = "idle" /\ script.ret = "True") =>
       dispatched = SerialPart \o script.commands
  /\ (script.pc = "idle" /\ script.ret = "False") => dispatched = <<>>
  /\ script.pc # "batch" => batch.pc = "idle"

C20_Witness ==
  /\ script.pc = "idle" /\ script.ret = "True"
  /\ script.serial = <<"S1", ",", "S2">>
  /\ _serials = <<"S1", "S2">>
  /\ dispatched = <<SetSerialLine(<<"S1", ",", "S2">>), build_start_1,
                    build_stop_2, build_stop_1>>
  /\ last.cmd = build_stop_1 /\ last.res = "stopped"



\* ------------------------------------------------- single and list
\* The unit of work that belongs to a command.
OwnUnit(verb) ==
  CASE verb = "build" -> "UpdateBuild"
    [] verb = "config" -> "UpdateConfig"
    [] verb = "device" -> "UpdateDevice"

\* C16 (as claimed): --update=single of build, config and device runs exactly
\* one unit of work of the command's own kind.
C16_SingleRunsOwnUnit ==
  (last.cmd.verb \in {"build", "config", "device"} /\ last.cmd.update = "single"
     /\ (last.cmd.verb = "device" => HostResult(last.cmd.host) = "ok"))
  => last.work = <<OwnUnit(last.cmd.verb)>>

\* C17 (as claimed): --update=list of build and config prints the ids whose
\* session is active (started and not stopped), and no other id.
C17_ListPrintsActiveIds ==
  (last.cmd.verb \in {"build", "config"} /\ last.cmd.update = "list")
  => LET reg == IF last.cmd.verb = "build" THEN build_thread
                ELSE schedule_thread
     IN last.listed = {id \in DOMAIN reg : FlaggedRunning(reg, id)}

\* ------------------------------------------------------------ flash
\* The targets of a flash command: --serial, else the selected serials, else
\* the unspecified device.
ResolvedTargets ==
  IF last.cmd.args.serial # "" THEN <<last.cmd.args.serial>>
  ELSE IF _serials # <<>> THEN _serials
  ELSE <<"">>

FlashOpsOf(dev) ==
  {i \in 1..Len(flash_calls) :
     flash_calls[i].serial = dev /\ flash_calls[i].op # "WaitForDevice"}
WaitsOf(dev) ==
  {i \in 1..Len(flash_calls) :
     flash_calls[i].serial = dev /\ flash_calls[i].op = "WaitForDevice"}

C19_FailureDoesNotAbortTargets ==
  (last.cmd.verb = "flash" /\ last.res = "FlasherError") =>
    \A k \in 1..Len(ResolvedTargets) : FlashOpsOf(ResolvedTargets[k]) # {}



\* ----------------------------------------------------------- gsispl
IsCalendarDate(y, m, d) ==
  y >= 1 /\ m \in 1..12 /\ d \in 1..DaysInMonth(y, m)

\* v is YYYY-MM-DD: four, two and two digits, naming a calendar date.
IsYYYYMMDD(v) ==
  /\ Len(v) = 10
  /\ v[5] = "-" /\ v[8] = "-"
  /\ IsDigits(SubSeq(v, 1, 4)) /\ IsDigits(SubSeq(v, 6, 7))
  /\ IsDigits(SubSeq(v, 9, 10))
  /\ IsCalendarDate(ToInt(SubSeq(v, 1, 4)), ToInt(SubSeq(v, 6, 7)),
                    ToInt(SubSeq(v, 9, 10)))

\* v is a four-digit year, a month and a day of one or two digits each,
\* separated by "-" and naming a calendar date.
IsYearMonthDay(v) ==
  \E lm, ld \in {1, 2} :
    /\ Len(v) = 6 + lm + ld
    /\ v[5] = "-" /\ v[6 + lm] = "-"
    /\ IsDigits(SubSeq(v, 1, 4)) /\ IsDigits(SubSeq(v, 6, 5 + lm))
    /\ IsDigits(SubSeq(v, 7 + lm, 6 + lm + ld))
    /\ IsCalendarDate(ToInt(SubSeq(v, 1, 4)), ToInt(SubSeq(v, 6, 5 + lm)),
                      ToInt(SubSeq(v, 7 + lm, 6 + lm + ld)))

\* The gsispl command reported an error, ran nothing and changed nothing.
GsiSplRejected ==
  /\ last'.res \in {"ConsoleArgumentError",
                    "Cannot find system image in given path",
                    "Cannot find system image.",
                    "version ID should be YYYY-mm-dd format."}
  /\ last'.ret = "None"
  /\ shell_calls' = <<>>
  /\ UNCHANGED <<sessionVars, _serials, _hosts, artifactVars>>

\* C13 (as claimed): a gsispl whose version is not a valid YYYY-MM-DD date is
\* rejected: an error is reported, change_spl.sh is not run and no state
\* changes.
C13_MalformedVersionRejected ==
  [][(last'.cmd.verb = "gsispl" /\ ~IsYYYYMMDD(last'.cmd.args.version))
     => GsiSplRejected]_vars

\* C13 (amended): a gsispl whose version is not year-month-day with a
\* four-digit year and a month and day of one or two digits naming a calendar
\* date is rejected in that way; a version that is, padded or not, is handed
\* to change_spl.sh zero-padded whenever the image is found.
C13_UnparsableVersionRejected ==
  [][last'.cmd.verb = "gsispl" =>
       /\ ~IsYearMonthDay(last'.cmd.args.version) => GsiSplRejected
       /\ (last'.cmd.args.version = v_2020_1_5 /\ last'.res = "ok") =>
            /\ Len(shell_calls') = 1
            /\ shell_calls'[1].version = v_2020_01_05]_vars

\* system.img is fetched, the version is 2020-13-40: refused at the version.
C13_Witness ==
  /\ last.cmd.verb = "gsispl"
  /\ last.cmd.args = [gsi |-> <<>>, version |-> v_2020_13_40]
  /\ last.res = "version ID should be YYYY-mm-dd format."
  /\ shell_calls = <<>>
  /\ device_image_info = (system_img :> <<"d", "system.img">>)

\* --------------------------------------------------- script rejection
\* The path carries the script extension: its last three characters are
\* ".py".
HasScriptExtension(path) ==
  /\ Len(path) >= 3
  /\ path[Len(path) - 2] = "." /\ path[Len(path) - 1] = "p"
  /\ path[Len(path)] = "y"

\* C21: ProcessScript on a path without the .py extension returns False, has
\* not loaded the script, has handed no line to onecmd (the synthesized
\* device --set_serial line included) and leaves every console variable as
\* it was.
C21_NonScriptPathRejected ==
  /\ [][ (script.pc = "idle" /\ script' # script
           /\ ~HasScriptExtension(script'.path))
         => /\ script'.pc = "idle"
            /\ script'.ret = "False"
            /\ ~script'.loaded
            /\ dispatched' = <<>>
            /\ UNCHANGED <<sessionVars, _serials, _hosts, artifactVars, last,
                           stop, batch, jobs, shell_calls, upload, lease_job>> ]_vars
  /\ [] (~HasScriptExtension(script.path) =>
           (~script.loaded /\ dispatched = <<>> /\ script.pc = "idle"))

\* run.py.txt is refused after an earlier script started a build session and
\* selected a serial.
C21_Witness ==
  /\ script.pc = "idle" /\ script.ret = "False"
  /\ script.path = run_py_txt
  /\ ~script.loaded
  /\ dispatched = <<>>
  /\ _serials = <<"S1">>
  /\ 1 \in DOMAIN build_thread

\* ------------------------------------------------- selected serials
\* The serials a comma-separated argument names, in the order given.
GivenSerials(toks) == SelectSeq(toks, LAMBDA x : x # ",")

\* C22: a device command with --set_serial=<csv> leaves the selected-serials
\* list equal to the serials of its argument, in order, whatever the list
\* held before and whatever the rest of the command does; a device command
\* without it leaves the list alone; neither touches the artifact maps.
C22_SetSerialReplacesList ==
  [][ (CommandStep /\ last'.cmd.verb = "device")
      => /\ last'.cmd.set_serial # <<>> =>
              _serials' = GivenSerials(last'.cmd.set_serial)
         /\ last'.cmd.set_serial = <<>> => _serials' = _serials
         /\ UNCHANGED <<device_image_info, test_suite_info, tools_info,
                        fetch_info>> ]_vars

\* S1,S2 is selected by a command whose start is refused because the device
\* session is already running.
C22_Witness ==
  /\ last.cmd.verb = "device"
  /\ last.cmd.set_serial = <<"S1", ",", "S2">>
  /\ last.res = "already running"
  /\ _serials = <<"S1", "S2">>
  /\ update_thread # 0

\* ------------------------------------------------------ host lookup
\* C23: a lease or a device --update command without --host fails with the
\* argument error when the console has more than one host (no host is read,
\* no task is leased, no unit of work or thread is started) and reads host 0
\* when it has exactly one (the lease then calls LeaseCommandTasks once).
C23_HostDefaultsToSoleHost ==
  [][ (CommandStep /\ last'.cmd.verb \in {"lease", "device"}
        /\ last'.cmd.host = <<>>)
      => /\ _hosts > 1 =>
              /\ last'.res = "ConsoleArgumentError"
              /\ last'.ret = "None"
              /\ last'.on_host = <<>>
              /\ last'.work = <<>>
              /\ UNCHANGED sessionVars
         /\ _hosts = 1 =>
              /\ last'.on_host = <<0>>
              /\ last'.res \notin {"ConsoleArgumentError", "IndexError"}
              /\ last'.cmd.verb = "lease" =>
                   last'.work = <<"LeaseCommandTasks">> ]_vars

\* Two hosts and a lease without --host, while a device session runs.
C23_Witness ==
  /\ _hosts = 2
  /\ last.cmd.verb = "lease" /\ last.cmd.host = <<>>
  /\ last.res = "ConsoleArgumentError"
  /\ last.work = <<>>
  /\ update_thread # 0

\* ------------------------------------------------- cancellation
\* Stop has set the flag of thread t.
Flagged(t) == t <= Len(threads) /\ threads[t].keep_running = "False"
At(t, pcs) == t <= Len(threads) /\ threads[t].pc \in pcs

\* C24: a loop reads its flag at the while test only.  Once the flag of a
\* loop is set: a loop at the test exits there without working or sleeping
\* again; a loop that is sleeping finishes that sleep and never works or
\* sleeps again; a loop that had passed the test runs that one unit of work
\* and one sleep, and no other.
C24_FlagReadAtTopOnly ==
  \A t \in 1..MaxThreads :
    /\ [] ((Flagged(t) /\ At(t, {"top"})) => [] At(t, {"top", "done"}))
    /\ [] ((Flagged(t) /\ At(t, {"sleep", "done", "dead"}))
            => [] ~At(t, {"work"}))
    /\ [] ((Flagged(t) /\ At(t, {"work"}))
            => [] (At(t, {"work"}) \/ [] ~At(t, {"work"})))
    /\ [] ((Flagged(t) /\ At(t, {"work", "sleep"}))
            => [] (At(t, {"work", "sleep"}) \/ [] ~At(t, {"work", "sleep"})))
    /\ [] (Flagged(t) => [] Flagged(t))

\* The flag was set while the build loop was inside its unit of work; the
\* loop has since finished the unit and is in its last sleep.
C24_Witness ==
  /\ Flagged(1)
  /\ threads[1].kind = "build" /\ threads[1].pc = "sleep"
  /\ last.cmd.verb = "build" /\ last.cmd.update = "stop"
  /\ last.res = "stopped"

\* ---------------------------------------------------- overlapping work
\* The threads of a kind that are inside a unit of work.
Working(kind) ==
  {t \in 1..Len(threads) : threads[t].kind = kind /\ threads[t].pc = "work"}

\* C25 (as claimed): two units of work of one session never run at the same
\* time: never two device updates, and never two build (config) updates
\* while the build (config) registry holds a single id, under which every
\* thread of the kind was then started.
C25_SessionWorkNeverOverlaps ==
  /\ Cardinality(Working("device")) <= 1
  /\ Cardinality(DOMAIN build_thread) <= 1 => Cardinality(Working("build")) <= 1
  /\ Cardinality(DOMAIN schedule_thread) <= 1 =>
       Cardinality(Working("config")) <= 1

\* ------------------------------------------------------- no pruning
\* C26: no step removes an id from a registry: a Stop leaves its id
\* registered to the same thread, a loop that exits or dies leaves the
\* registries and the device handle alone, and every registered id keeps
\* naming a thread that was created.
C26_RegistriesOnlyGrow ==
  /\ [][ /\ DOMAIN build_thread \subseteq DOMAIN build_thread'
         /\ DOMAIN schedule_thread \subseteq DOMAIN schedule_thread'
         /\ (CommandStep /\ IsSessionStop(last') /\ last'.res = "stopped")
            => /\ last'.cmd.id[1] \in DOMAIN RegistryAfter(last'.cmd.verb)
               /\ UNCHANGED <<build_thread, schedule_thread>>
         /\ ~CommandStep
            => UNCHANGED <<build_thread, schedule_thread, update_thread>> ]_vars
  /\ [] /\ \A id \in DOMAIN build_thread :
             build_thread[id] \in 1..Len(threads)
        /\ \A id \in DOMAIN schedule_thread :
             schedule_thread[id] \in 1..Len(threads)

\* Build session 1 was stopped and its loop has exited; id 1 is still
\* registered, and to that thread.
C26_Witness ==
  /\ 1 \in DOMAIN build_thread
  /\ build_thread[1] = 1
  /\ threads[1].keep_running = "False"
  /\ threads[1].pc = "done"

\* ----------------------------------------------------- independence
\* The command left every thread of another kind as it was and created
\* threads of its own kind only.
OtherKindsKept(kind) ==
  /\ \A t \in 1..Len(threads) :
       threads[t].kind # kind => threads'[t] = threads[t]
  /\ \A t \in (Len(threads) + 1)..Len(threads') : threads'[t].kind = kind

\* C27: a build command leaves the config registry, the device handle and
\* their threads (flags included) unchanged, and likewise for a config and
\* for a device command; a Start with an explicit id and a valid interval is
\* accepted whenever that id is not running in its own registry, whatever
\* the other registry holds under the same number.
C27_KindsAreIndependent ==
  [][ CommandStep =>
        /\ last'.cmd.verb = "build" =>
             /\ UNCHANGED <<schedule_thread, update_thread>>
             /\ OtherKindsKept("build")
        /\ last'.cmd.verb = "config" =>
             /\ UNCHANGED <<build_thread, update_thread>>
             /\ OtherKindsKept("config")
        /\ last'.cmd.verb = "device" =>
             /\ UNCHANGED <<build_thread, schedule_thread>>
             /\ OtherKindsKept("device")
        /\ (IsSessionStart(last') /\ last'.cmd.id # <<>>
              /\ last'.cmd.interval > 0
              /\ ~FlaggedRunning(RegistryOf(last'.cmd.verb), last'.cmd.id[1]))
           => last'.res = "started" ]_vars

\* Id 1 is running in the build registry and, just started, in the config
\* registry.
C27_Witness ==
  /\ last.cmd.verb = "config" /\ last.cmd.update = "start"
  /\ last.cmd.id = <<1>> /\ last.res = "started"
  /\ FlaggedRunning(build_thread, 1)
  /\ FlaggedRunning(schedule_thread, 1)
  /\ build_thread[1] # schedule_thread[1]

\* ------------------------------------------------------ positive ids
\* C28 (as claimed): every id registered in the build or the config
\* registry is a positive integer.
C28_RegisteredIdsArePositive ==
  \A id \in DOMAIN build_thread \cup DOMAIN schedule_thread : id >= 1

\* ------------------------------------------------- gsispl frame
\* The file system-<version>.img in the directory of path.
Beside(path, version) ==
  [i \in 1..Len(path) |->
     IF i < Len(path) THEN path[i]
     ELSE [prefix |-> "system-", version |-> version, suffix |-> ".img"]]

\* C29: a gsispl command changes the device-image map only when no --gsi is
\* given, system.img is in the map and change_spl.sh ran and exited with 0:
\* then system.img, and no other entry, is re-pointed to system-<version>.img
\* beside the image it named; in every other case (--gsi given, tool failed,
\* image or version refused) the map is as it was.  Nothing else of the
\* console changes in either case.
C29_GsiSplUpdatesMapInOneCase ==
  [][ last'.cmd.verb = "gsispl" =>
        /\ IF /\ last'.cmd.args.gsi = <<>>
              /\ system_img \in DOMAIN device_image_info
              /\ shell_calls' # <<>>
              /\ last'.cmd.err_code = 0
           THEN /\ DOMAIN device_image_info' = DOMAIN device_image_info
                /\ device_image_info'[system_img] =
                     Beside(device_image_info[system_img],
                            shell_calls'[1].version)
                /\ shell_calls'[1].gsi_path = device_image_info[system_img]
                /\ shell_calls'[1].output_path = device_image_info'[system_img]
                /\ \A k \in DOMAIN device_image_info \ {system_img} :
                     device_image_info'[k] = device_image_info[k]
           ELSE device_image_info' = device_image_info
        /\ UNCHANGED <<sessionVars, _serials, _hosts, test_suite_info,
                       tools_info, fetch_info, flash_calls>> ]_vars

\* The fetched system.img at d/system.img was patched to 2020-02-29: the map
\* now names d/system-2020-02-29.img.
C29_Witness ==
  /\ last.cmd.verb = "gsispl" /\ last.res = "ok"
  /\ last.cmd.args = [gsi |-> <<>>, version |-> v_2020_02_29]
  /\ Len(shell_calls) = 1
  /\ shell_calls[1].gsi_path = <<"d", "system.img">>
  /\ device_image_info =
       (system_img :> <<"d", [prefix |-> "system-", version |-> v_2020_02_29,
                              suffix |-> ".img"]>>)

\* ------------------------------------------------------- clear then set
IsClear(r) == r.url = <<upload.kind, "v1", "clear">>
IsSet(r) == r.url = <<upload.kind, "v1", "set">>

\* C30: an upload of schedule or lab information posts nothing for an absent
\* or empty list; otherwise its first request, and only its first, is the
\* clear request of its kind and every later one a set request; once the
\* clear request is answered the call has either returned or is posting set
\* requests; a clear request that is refused ends the call with that one
\* request and the result False (a post that raises ends it there as well,
\* with the exception); and the result True means that the clear and every
\* set request, one per payload in order, were answered ok.
C30_ClearThenSet ==
  upload.kind # "none" =>
    /\ (upload.pbs.none \/ upload.pbs.items = <<>>) =>
         (upload.sent = <<>> /\ upload.pc = "idle")
    /\ ~(upload.pbs.none \/ upload.pbs.items = <<>>) =>
         (upload.sent = <<>> <=> upload.pc = "clear")
    /\ \A i \in 1..Len(upload.sent) :
         IF i = 1 THEN IsClear(upload.sent[i]) /\ ~IsSet(upload.sent[i])
         ELSE IsSet(upload.sent[i]) /\ ~IsClear(upload.sent[i])
    /\ (upload.sent # <<>> /\ upload.sent[1].status # "200") =>
         /\ Len(upload.sent) = 1 /\ upload.pc = "idle"
         /\ upload.ret = IF upload.sent[1].status = "ConnectionError"
                         THEN "raised" ELSE "False"
    /\ upload.ret = "True" =>
         /\ upload.pc = "idle"
         /\ Len(upload.sent) = 1 + Len(upload.sets)
         /\ \A i \in 1..Len(upload.sent) : upload.sent[i].status = "200"
         /\ \A i \in 1..Len(upload.sets) :
              upload.sent[i + 1].data = upload.sets[i]

\* Three schedules after the clear request; the second was refused, the
\* third was still posted and the upload reports failure.
C30_Witness ==
  /\ upload.kind = "schedule_info"
  /\ upload.pbs.items = <<pb_one, pb_two>>
  /\ upload.pc = "idle" /\ upload.ret = "False"
  /\ [i \in 1..Len(upload.sent) |-> upload.sent[i].status] =
       <<"200", "200", "500", "200">>
  /\ upload.sent[4].data =
       [manifest_branch |-> "b2", build_target |-> <<"t2">>, test_name |-> "y"]

\* ---------------------------------------------------------- LeaseJob
\* What the caller gets on a transport failure: the result of the same call
\* when the status is not OK.
TransportFailure(r) == LeaseJobOnResponse([r EXCEPT !.status = "500"]).ret

\* The response carries a return_code other than SUCCESS.
Rejected(r) == r.json.return_code # <<>> /\ r.json.return_code[1] # "SUCCESS"

\* C31 (as claimed): LeaseJob returns a job only for a non-empty hostname, an
\* OK status, a return_code that is absent or SUCCESS and a non-empty jobs
\* list, and then the first job; and on an OK response whose return_code is
\* not SUCCESS it returns something other than what it returns on a
\* transport failure.
C31_RejectionDistinctFromTransport ==
  lease_job.called =>
    /\ lease_job.ret # NoJob =>
         /\ lease_job.hostname # ""
         /\ lease_job.response.status = "200"
         /\ ~Rejected(lease_job.response)
         /\ lease_job.response.json.jobs # <<>>
         /\ lease_job.response.json.jobs[1] # <<>>
         /\ lease_job.ret.job = lease_job.response.json.jobs[1][1]
    /\ (lease_job.hostname # "" /\ lease_job.response.status = "200"
          /\ Rejected(lease_job.response))
       => lease_job.ret # TransportFailure(lease_job.response)


\* ------------------------------------------- loops write no console state
\* The stop flags of the threads created so far.
Flags == [t \in 1..Len(threads) |-> threads[t].keep_running]

\* C32: a step of a polling loop (build, config or device) leaves the device
\* image, test suite, tool and fetch-info maps, the selected serials, both
\* registries and the device handle as they were, and sets no stop flag and
\* creates no thread: whenever one of these changes, the step is a command.
C32_LoopsWriteNoSharedState ==
  [][ /\ ~CommandStep
         => /\ UNCHANGED <<device_image_info, test_suite_info, tools_info,
                           fetch_info, _serials, build_thread,
                           schedule_thread, update_thread>>
            /\ Len(threads') = Len(threads)
            /\ Flags' = Flags
      /\ ~UNCHANGED <<device_image_info, test_suite_info, tools_info,
                      fetch_info, _serials, build_thread, schedule_thread,
                      update_thread>>
         => /\ CommandStep
            /\ last'.cmd.verb \in {"build", "config", "device", "fetch"} ]_vars

\* A build loop and a device loop have each finished a unit of work (one has
\* since exited, one died) after a fetch and a set_serial filled the maps
\* and the serials; all of them are as the commands left them.
C32_Witness ==
  /\ Len(threads) >= 2
  /\ threads[1].pc \in {"sleep", "done"}
  /\ threads[2].pc = "dead"
  /\ device_image_info = system_img :> "/s"
  /\ tools_info = "flasher" :> "/bin/flasher"
  /\ _serials = <<"S1">>
  /\ 1 \in DOMAIN build_thread
  /\ update_thread # 0


\* -------------------------------------------------- batches work on copies
\* A onecmd(list) call is in progress before or after the step.
InBatch == batch.pc # "idle" \/ batch'.pc # "idle"

\* C33: from the entry of a batch call to its return no step changes the
\* artifact maps, the fetch info, the selected serials, the registries, the
\* device handle or any thread of the console, whatever the members run (a
\* fetch, a set_serial, a session start); and no member sees what another
\* member did: two members with the same line print the same result.
C33_BatchLeavesConsoleUnchanged ==
  /\ [][ InBatch =>
           UNCHANGED <<device_image_info, test_suite_info, tools_info,
                       fetch_info, _serials, build_thread, schedule_thread,
                       update_thread, threads, last>> ]_vars
  /\ [] \A i, j \in 1..Len(jobs) :
          (/\ jobs[i].state = "exited" /\ jobs[j].state = "exited"
           /\ jobs[i].line = jobs[j].line)
          => jobs[i].printed = jobs[j].printed

\* A batch of a fetch, a set_serial and two starts of build session 1 has
\* returned: each start printed "started", the maps, the serials and the
\* device handle are empty, and the start of session 1 that the script
\* emitted after the batch was accepted as the first one.
C33_Witness ==
  /\ script.pc = "idle" /\ script.ret = "True"
  /\ Len(jobs) = 4
  /\ jobs[1].line = fetch_line /\ jobs[1].printed = "ok"
  /\ jobs[2].line = SetSerialLine(<<"S1">>) /\ jobs[2].printed = "started"
  /\ jobs[3].printed = "started" /\ jobs[4].printed = "started"
  /\ device_image_info = <<>> /\ tools_info = <<>> /\ fetch_info = <<>>
  /\ _serials = <<>>
  /\ update_thread = 0
  /\ last.cmd = build_start_1 /\ last.res = "started"
  /\ Len(threads) = 1 /\ build_thread = 1 :> 1

\* ------------------------------------------- replay ignores the stop result
\* An exit command or the line "EOF".
IsExit(command) ==
  ~IsList(command) /\ (command.verb = "exit" \/ command = EOF_line)

\* Command i of the script is an exit line, or a batch that holds one.
HoldsExit(i) ==
  LET command == script.commands[i] IN
  IF IsList(command)
  THEN \E n \in 1..Len(command.list) : IsExit(command.list[n])
  ELSE IsExit(command)

\* C34: an exit or EOF line that a script emits, on its own or inside a
\* batch, returns True to the replay and the replay goes on: the console is
\* not stopped, the replay ends only behind the last emitted command, every
\* command emitted after the exit line has then been dispatched, and the
\* script is reported as processed.
C34_ReplayIgnoresExit ==
  /\ script.pc # "idle" => ~stop
  /\ (script.pc = "replay" /\ script.k > 1 /\ IsExit(script.commands[script.k - 1]))
       => (last.cmd = script.commands[script.k - 1] /\ last.ret = "True")
  /\ (script.pc = "idle" /\ script.loaded) =>
       /\ script.ret = "True"
       /\ script.k = Len(script.commands)
       /\ ~stop
       /\ \A i \in 1..Len(script.commands) :
            HoldsExit(i) =>
              \A n \in (i + 1)..Len(script.commands) :
                dispatched[Len(SerialPart) + n] = script.commands[n]

\* The script emitted exit, a start, a batch of EOF and exit, and a fetch:
\* the start and the fetch ran after the exit lines, and the script ended
\* with success.
C34_Witness ==
  /\ script.pc = "idle" /\ script.ret = "True"
  /\ Len(script.commands) = 4
  /\ script.commands[1] = exit_line
  /\ 1 \in DOMAIN build_thread
  /\ Len(jobs) = 2 /\ jobs[1].printed = "exit" /\ jobs[2].printed = "exit"
  /\ last.cmd = fetch_line /\ last.res = "ok"
  /\ device_image_info = system_img :> "/s"
  /\ ~stop


\* ------------------------------------------------- the default of --update
\* The step is the dispatch of the line that ProcessScript synthesizes.
SynthesizedStep ==
  script.pc = "serial" /\ script'.pc = "emit" /\ script.serial # <<>>

\* C35: a device line without --update is handled as one with --update=start
\* (with the same refusals of a non-positive interval and of a --host that
\* cannot be resolved), so the "device --set_serial" line that script
\* processing synthesizes sets the serials and, on a console with one host,
\* starts a device session when none is flagged running and is told that
\* one is already running otherwise.
C35_DeviceDefaultsToStart ==
  /\ [] \A interval \in Intervals, hostarg \in HostArgs :
          DeviceResult(ParseUpdate(<<>>), interval, hostarg, "ok")
            = DeviceResult("start", interval, hostarg, "ok")
  /\ [][ SynthesizedStep =>
           /\ last'.cmd = SetSerialLine(script.serial)
           /\ last'.cmd.update = "start"
           /\ _serials' = GivenSerials(script.serial)
           /\ _hosts > 1 =>
                /\ last'.res = "ConsoleArgumentError"
                /\ UNCHANGED <<update_thread, threads>>
           /\ (_hosts = 1 /\ DeviceAlreadyRunning) =>
                /\ last'.res = "already running"
                /\ UNCHANGED <<update_thread, threads>>
           /\ (_hosts = 1 /\ ~DeviceAlreadyRunning) =>
                /\ last'.res = "started"
                /\ update_thread' = Len(threads) + 1
                /\ threads' = Append(threads, NewThread("device", 30)) ]_vars

\* Script processing with serial S1 on a console without a device session:
\* the synthesized line has started the session, whose loop is at work.
C35_Witness ==
  /\ script.pc = "idle" /\ script.ret = "True" /\ script.serial = <<"S1">>
  /\ dispatched = <<SetSerialLine(<<"S1">>)>>
  /\ last.cmd = SetSerialLine(<<"S1">>) /\ last.res = "started"
  /\ _serials = <<"S1">>
  /\ update_thread = 1 /\ Len(threads) = 1
  /\ threads[1].kind = "device" /\ threads[1].pc = "work"


\* --------------------------------------------- running is "not flagged"
\* Thread t has left its loop without a Stop: it died, and has no flag.
DiedUnflagged(t) ==
  /\ t \in 1..Len(threads)
  /\ threads[t].pc = "dead"
  /\ threads[t].keep_running = "absent"

\* C36: a session whose loop has died without a Stop still counts as
\* running.  A Start with its id (for the device session: any Start) is
\* refused, as already running when the interval is valid, and creates
\* nothing; the flag of the dead thread is set by a Stop command on it and by
\* nothing else; and once it is set the next Start is accepted.
C36_DeadLoopStillRunning ==
  [][ /\ (CommandStep /\ IsSessionStart(last') /\ last'.cmd.id # <<>>
          /\ last'.cmd.id[1] \in DOMAIN RegistryOf(last'.cmd.verb)
          /\ DiedUnflagged(RegistryOf(last'.cmd.verb)[last'.cmd.id[1]]))
         => /\ last'.res = "already running"
            /\ UNCHANGED <<build_thread, schedule_thread, update_thread,
                           threads>>
      /\ (CommandStep /\ last'.cmd.verb = "device"
          /\ last'.cmd.update = "start" /\ DiedUnflagged(update_thread))
         => /\ last'.res = "already running"
            /\ UNCHANGED <<build_thread, schedule_thread, update_thread,
                           threads>>
      /\ \A t \in 1..Len(threads) :
           (DiedUnflagged(t) /\ threads'[t].keep_running # "absent")
           => /\ CommandStep
              /\ last'.cmd.update = "stop" /\ last'.res = "stopped"
              /\ last'.cmd.verb = threads[t].kind
      /\ (CommandStep /\ IsSessionStart(last') /\ last'.cmd.id # <<>>
          /\ last'.cmd.id[1] \in DOMAIN RegistryOf(last'.cmd.verb)
          /\ LET t == RegistryOf(last'.cmd.verb)[last'.cmd.id[1]]
             IN threads[t].pc = "dead" /\ Flagged(t))
         => /\ last'.res = "started"
            /\ RegistryAfter(last'.cmd.verb)[last'.cmd.id[1]]
                 = Len(threads) + 1
      /\ (CommandStep /\ last'.cmd.verb = "device"
          /\ last'.cmd.update = "start" /\ update_thread # 0
          /\ threads[update_thread].pc = "dead" /\ Flagged(update_thread))
         => /\ last'.res = "started"
            /\ update_thread' = Len(threads) + 1 ]_vars

\* The loop of build session 1 died in its unit of work and no Stop was
\* given; a Start with id 1 has just been refused as already running.
C36_Witness ==
  /\ last.cmd.verb = "build" /\ last.cmd.update = "start"
  /\ last.cmd.id = <<1>> /\ last.res = "already running"
  /\ build_thread = 1 :> 1
  /\ DiedUnflagged(1)

\* ------------------------------------------- the flag belongs to the loop
\* C37: the stop flag is the loop's own.  A Start (on a stopped id, or on the
\* device handle) creates a thread without a flag and leaves the flag of
\* every thread that exists as it is; a flag once set stays set; a loop whose
\* flag is set leaves its while test by exiting and a loop whose flag is not
\* set leaves it into a unit of work, whatever the flags of the other
\* threads registered under the same id before or after it.
C37_FlagBelongsToLoop ==
  [][ /\ \A t \in 1..Len(threads) :
           /\ Flagged(t) => threads'[t].keep_running = "False"
           /\ (At(t, {"top"}) /\ threads'[t].pc # "top") =>
                threads'[t].pc = IF Flagged(t) THEN "done" ELSE "work"
           /\ At(t, {"done"}) => threads'[t].pc = "done"
      /\ Len(threads') > Len(threads) =>
           /\ Len(threads') = Len(threads) + 1
           /\ SubSeq(threads', 1, Len(threads)) = threads
           /\ threads'[Len(threads')].keep_running = "absent"
           /\ threads'[Len(threads')].pc = "top" ]_vars

\* Build session 1 was stopped and started again: the first loop has seen
\* its flag and exited, the second, registered under id 1, is unflagged and
\* has run a unit of work.
C37_Witness ==
  /\ Len(threads) = 2
  /\ threads[1].kind = "build" /\ threads[2].kind = "build"
  /\ build_thread = 1 :> 2
  /\ Flagged(1) /\ threads[1].pc = "done"
  /\ threads[2].keep_running = "absent" /\ threads[2].pc = "sleep"


\* ------------------------------------------------ a fetch that fails
\* C38: when the provider of a fetch raises, the command prints the error,
\* returns nothing that stops the console, and leaves the device image, test
\* suite and tool maps and the fetch info exactly as they were.
C38_FailedFetchWritesNothing ==
  [][ (last'.cmd.verb = "fetch" /\ last'.cmd.raises)
      => /\ last'.res = "IOError"
         /\ last'.ret = "None"
         /\ UNCHANGED <<device_image_info, test_suite_info, tools_info,
                        fetch_info>> ]_vars

\* A gcs fetch filled the three maps and the fetch info; the pab fetch after
\* it raised and they still hold what the first fetch left.
C38_Witness ==
  /\ last.cmd.verb = "fetch" /\ last.cmd.type = "pab" /\ last.cmd.raises
  /\ last.res = "IOError"
  /\ device_image_info = system_img :> "/s"
  /\ test_suite_info = "vts" :> "/vts"
  /\ tools_info = "flasher" :> "/bin/flasher"
  /\ fetch_info = [build_id |-> "None", branch |-> "None", target |-> "None"]

\* ----------------------------------------------- the flasher path lookup
\* C39: a flash command calls a flasher only when its --flasher_path is a key
\* of the tools map.  When it is not (an absent --flasher_path is the key
\* None, which no fetch adds), the command ends with KeyError: no flasher is
\* called or waited for, whatever --serial and the selected serials are, and
\* nothing else changes.
C39_FlashNeedsFetchedTool ==
  [][ last'.cmd.verb = "flash"
      => /\ flash_calls' # <<>> =>
              last'.cmd.args.flasher_path \in DOMAIN tools_info
         /\ last'.cmd.args.flasher_path \notin DOMAIN tools_info =>
              /\ last'.res = "KeyError"
              /\ last'.ret = "None"
              /\ flash_calls' = <<>>
              /\ UNCHANGED <<device_image_info, test_suite_info, tools_info,
                             fetch_info, _serials, sessionVars>> ]_vars

\* A tool and images have been fetched and two serials are selected; a flash
\* without --flasher_path has ended with KeyError and called no flasher.
C39_Witness ==
  /\ last.cmd.verb = "flash"
  /\ last.cmd.args.flasher_path = "None"
  /\ last.res = "KeyError"
  /\ flash_calls = <<>>
  /\ tools_info = "flasher" :> "/bin/flasher"
  /\ device_image_info # <<>>
  /\ _serials = <<"S1", "S2">>

============================================================================
